---- MODULE Spec2Model ----
(***************************************************************************)
(* Credential lifecycle of jquantsapi.JSONClient (client_json.py): the     *)
(* cached refresh token and id token, their expiries, get_refresh_token,   *)
(* get_id_token with its tenacity retry decorator, and several threads     *)
(* calling them on one client instance.  Every read or write of an         *)
(* attribute of the client that another thread can interleave with is a    *)
(* step of its own.  Time is in seconds.                                   *)
(***************************************************************************)
EXTENDS Integers, Sequences, FiniteSets, TLC

(* ------------------------------ bounds --------------------------------- *)
\* events of the environment in one behaviour: tokens the upstream issues
\* (successful logins and exchanges), backoff sleeps, and jumps of the clock
MaxEvents == 4
\* of which jumps of the clock
MaxTicks == 1

\* the threads that share the client instance: the thread of the caller, which
\* calls the public methods with any arguments, and a worker thread of a range
\* fetch, which calls get_id_token() from _base_headers
Threads == {"main", "worker"}
Callers == {"main"}

(* ------------------------- program constants --------------------------- *)
\* timedelta(days=6) of the refresh token, in seconds
REFRESH_TOKEN_TTL == 6 * 86400
\* timedelta(hours=23) of the id token, in seconds
ID_TOKEN_TTL == 23 * 3600
\* stop_after_attempt(3)
STOP_AFTER_ATTEMPT == 3
\* wait_exponential(multiplier=1, min=5, max=300)
WAIT_MULTIPLIER == 1
WAIT_MIN == 5
WAIT_MAX == 300
\* the status the retry condition of get_id_token tests for
BAD_REQUEST == 400
\* 401, standing for every status other than 400 that raise_for_status turns
\* into an HTTPError
UNAUTHORIZED == BAD_REQUEST + 1

(* ------------------------------ values --------------------------------- *)
\* a str is a sequence of characters; "" is the empty sequence
EMPTY == <<>>
\* Optional[str]
None == [some |-> FALSE, v |-> EMPTY]
Some(s) == [some |-> TRUE, v |-> s]

\* "@" in s
HasAt(s) == \E i \in DOMAIN s : s[i] = "@"

Max(a, b) == IF a >= b THEN a ELSE b
Min(a, b) == IF a <= b THEN a ELSE b

RECURSIVE Pow2(_)
Pow2(n) == IF n <= 0 THEN 1 ELSE 2 * Pow2(n - 1)

\* the credentials a client can be constructed with
ConfigMails == {EMPTY, <<"m", "@">>}
ConfigPasswords == {EMPTY, <<"p">>}
ConfigRefreshTokens == {EMPTY, <<"dummy_token">>}

\* the arguments the callers pass: (mail_address, password) of
\* get_refresh_token, and refresh_token of get_id_token
ArgCredentials == {<<None, None>>, <<Some(<<"m", "@">>), Some(<<"p">>)>>,
                   <<Some(EMPTY), Some(EMPTY)>>, <<Some(<<"m">>), Some(<<"p">>)>>}
ArgRefreshTokens == {None, Some(<<"explicit_token">>)}

\* the clock jumps of the environment: exactly one validity window of each token
TickSteps == {ID_TOKEN_TTL, REFRESH_TOKEN_TTL}

\* the status codes of the HTTPError that raise_for_status raises
ErrorStatuses == {BAD_REQUEST, UNAUTHORIZED}
NO_STATUS == 0 - 1
\* what a failing request raises out of _post: the HTTPError of raise_for_status
\* with its status code, or requests.ConnectionError for a failure below HTTP
Failures == {[exc |-> "HTTPError", status |-> c] : c \in ErrorStatuses}
            \cup {[exc |-> "ConnectionError", status |-> NO_STATUS]}

VARIABLES
    mail_address,           \* self._mail_address
    password,               \* self._password
    refresh_token,          \* self._refresh_token
    refresh_token_expire,   \* self._refresh_token_expire
    id_token,               \* self._id_token
    id_token_expire,        \* self._id_token_expire
    now,                    \* datetime.now(timezone.utc)
    minted,                 \* tokens the upstream has issued so far
    sleeps,                 \* backoff sleeps started so far
    ticks,                  \* clock jumps so far
    pc,                     \* where each thread is
    arg,                    \* the arguments of each thread's call
    loc,                    \* the local variables of each thread's call
    attempt,                \* tenacity's attempt_number of each thread's call
    waits,                  \* the waits tenacity has slept in each thread's call
    result,                 \* what each thread's call returned or raised
    hist,                   \* what each thread's call has done so far
    ctor,                   \* the construction of the client: its inputs and outcome
    dr,                     \* a call of date_range: its arguments, position and output
    fetch,                  \* each range fetch: where it is, its dates, what it has yielded
    task,                   \* the per-date tasks each range fetch has submitted to its pool
    finished,               \* the tasks of each range fetch in the order they completed
    sent,                   \* the HTTP requests sent so far: method, path, Authorization
    cache,                  \* cache_dir of get_statements_range: its files, reads and writes
    load,                   \* a call of _load_config: the sources and the merged result
    http,                   \* a request in the transport: its responses and re-sends
    sess                    \* self._session and the threads inside _request_session

creds == <<refresh_token, refresh_token_expire, id_token, id_token_expire>>
config == <<mail_address, password>>
env == <<now, ticks, minted, sleeps>>
perThread == <<pc, arg, loc, attempt, waits, result, hist>>
\* the state outside the credential lifecycle of a constructed client
ctorVars == <<ctor>>
dateVars == <<dr>>
rangeVars == <<fetch, task, finished, sent>>
otherVars == <<cache, load, http, sess>>
extraVars == <<ctor, dr, fetch, task, finished, sent, cache, load, http, sess>>
vars == <<mail_address, password, refresh_token, refresh_token_expire, id_token,
          id_token_expire, now, minted, sleeps, ticks, pc, arg, loc, attempt, waits, result,
          hist, ctor, dr, fetch, task, finished, sent, cache, load, http, sess>>

NoArg == [op |-> "none", refresh_token |-> None, mail_address |-> None, password |-> None]
NoError == [exc |-> "none", status |-> NO_STATUS]
NoLoc == [refresh_token |-> EMPTY, resp |-> EMPTY, e |-> NoError, wakeAt |-> 0]
NoResult == [op |-> "none", kind |-> "none", value |-> EMPTY, exc |-> "none",
             status |-> NO_STATUS]
\* of the current attempt: logins and exchanges sent, attributes written, the
\* credentials of the login request
NoHist == [logins |-> 0, exchanges |-> 0, wrote |-> {}, loginWith |-> <<>>]
\* the construction is not part of the behaviour: the client exists
NoCtor == [state |-> "none", args |-> <<None, None, None>>,
           cfg |-> <<EMPTY, EMPTY, EMPTY>>]
\* no call of date_range is part of the behaviour
NoDr == [state |-> "none", cur |-> 0, keys |-> <<>>]
\* the callers of range fetches on the one client, and a fetch not yet called
Fetches == {"f1", "f2"}
NoFetch == [state |-> "idle", mode |-> "none", keys |-> <<>>,
            early |-> 0, initial |-> {}, out |-> <<>>, merged |-> <<>>]
\* no range fetch is part of the behaviour
NoRange ==
    /\ fetch = [f \in Fetches |-> NoFetch]
    /\ task = [f \in Fetches |-> <<>>]
    /\ finished = [f \in Fetches |-> <<>>]
    /\ sent = {}

\* get_statements_range is not called with a cache_dir
NoCache == [dir |-> "", files |-> {}, pos |-> 0, hits |-> <<>>, writes |-> <<>>]
\* _load_config is not part of the behaviour
NoLoad == [state |-> "none"]
\* no request is followed through the transport
NoHttp == [state |-> "none"]
\* the session is not part of the behaviour
NoSess == [state |-> "none"]
NoOther ==
    /\ cache = NoCache
    /\ load = NoLoad
    /\ http = NoHttp
    /\ sess = NoSess

\* the token the upstream issues next: one it has never issued before
Mint(kind) == <<kind, minted + 1>>

(* --------------------------- construction ------------------------------ *)
\* the checks without the test for '@'
InitRaisesWithoutAt(mail, pw, rt) == (mail = EMPTY \/ pw = EMPTY) /\ rt = EMPTY

\* checks that accept one credential form only
InitRaisesUnlessExactlyOne(mail, pw, rt) ==
    \/ (mail # EMPTY /\ pw # EMPTY) = (rt # EMPTY)
    \/ mail # EMPTY /\ ~HasAt(mail)

\* JSONClient.__init__ raises ValueError for these credentials
InitRaises(mail, pw, rt) ==
    \/ (mail = EMPTY \/ pw = EMPTY) /\ rt = EMPTY
    \/ mail # EMPTY /\ ~HasAt(mail)

Init ==
    /\ mail_address \in ConfigMails
    /\ password \in ConfigPasswords
    /\ refresh_token \in ConfigRefreshTokens
    /\ ~InitRaises(mail_address, password, refresh_token)
    /\ now = 0
    /\ refresh_token_expire = IF refresh_token # EMPTY THEN now + REFRESH_TOKEN_TTL ELSE now
    /\ id_token = EMPTY
    /\ id_token_expire = now
    /\ minted = 0
    /\ sleeps = 0
    /\ ticks = 0
    /\ pc = [t \in Threads |-> "idle"]
    /\ arg = [t \in Threads |-> NoArg]
    /\ loc = [t \in Threads |-> NoLoc]
    /\ attempt = [t \in Threads |-> 0]
    /\ waits = [t \in Threads |-> <<>>]
    /\ result = [t \in Threads |-> NoResult]
    /\ hist = [t \in Threads |-> NoHist]
    /\ ctor = NoCtor
    /\ dr = NoDr
    /\ NoRange
    /\ NoOther

(* ------------------------------ helpers -------------------------------- *)
\* a thread that is in no call: it has never called, or its last call has
\* returned or raised (result keeps what that call gave its caller)
Finished == {"idle", "done", "raised"}

\* the environment may produce one more event
Budget == minted + sleeps + ticks < MaxEvents

\* thread t's call ends by returning v: its arguments and locals are gone
Returns(t, v) ==
    /\ pc' = [pc EXCEPT ![t] = "done"]
    /\ result' = [result EXCEPT ![t] = [op |-> arg[t].op, kind |-> "ret", value |-> v,
                                        exc |-> "none", status |-> NO_STATUS]]
    /\ arg' = [arg EXCEPT ![t] = NoArg]
    /\ loc' = [loc EXCEPT ![t] = NoLoc]
    /\ hist' = [hist EXCEPT ![t] = NoHist]
    /\ waits' = [waits EXCEPT ![t] = <<>>]
    /\ attempt' = [attempt EXCEPT ![t] = 0]

\* thread t's call ends by raising exception e with status code c to its
\* caller: its arguments and locals are gone
Raises(t, e, c) ==
    /\ pc' = [pc EXCEPT ![t] = "raised"]
    /\ result' = [result EXCEPT ![t] = [op |-> arg[t].op, kind |-> "exc",
                                        value |-> EMPTY, exc |-> e, status |-> c]]
    /\ arg' = [arg EXCEPT ![t] = NoArg]
    /\ loc' = [loc EXCEPT ![t] = NoLoc]
    /\ hist' = [hist EXCEPT ![t] = NoHist]
    /\ waits' = [waits EXCEPT ![t] = <<>>]
    /\ attempt' = [attempt EXCEPT ![t] = 0]

Wrote(t, field) == [hist EXCEPT ![t].wrote = @ \cup {field}]

(* -------------------------- get_refresh_token -------------------------- *)
\* self._refresh_token_expire > datetime.now(timezone.utc)
RefreshTokenValid == refresh_token_expire > now

\* the mail address and password get_refresh_token logs in with
EffectiveMail(t) ==
    IF arg[t].mail_address.some THEN arg[t].mail_address.v ELSE mail_address
EffectivePassword(t) ==
    IF arg[t].password.some THEN arg[t].password.v ELSE password

\* the checks without the test for '@'
CredentialsRejectedWithoutAt(mail, pw) == mail = EMPTY \/ pw = EMPTY

\* the two checks of get_refresh_token that raise ValueError
CredentialsRejected(mail, pw) ==
    \/ mail = EMPTY \/ pw = EMPTY
    \/ ~HasAt(mail)

\* a caller calls get_refresh_token(mail_address, password)
Call_get_refresh_token(t, m, p) ==
    /\ pc[t] \in Finished
    /\ pc' = [pc EXCEPT ![t] = "rt_check"]
    /\ arg' = [arg EXCEPT ![t] = [op |-> "get_refresh_token", refresh_token |-> None,
                                  mail_address |-> m, password |-> p]]
    /\ result' = [result EXCEPT ![t] = NoResult]
    /\ UNCHANGED <<creds, config, env, loc, attempt, waits, hist>>
    /\ UNCHANGED extraVars

\* self._post(token/auth_refresh?refreshtoken=rt) of get_id_token is sent
SendExchange(t, rt) ==
    /\ pc' = [pc EXCEPT ![t] = "ex_wait"]
    /\ loc' = [loc EXCEPT ![t].refresh_token = rt]
    /\ hist' = [hist EXCEPT ![t].exchanges = @ + 1]

\* get_refresh_token hands v to the code that called it: to get_id_token, which
\* sends the exchange request with it, or to the caller of the client
RtReturn(t, v) ==
    IF arg[t].op = "get_id_token"
    THEN /\ SendExchange(t, v)
         /\ UNCHANGED <<result, waits, attempt, arg>>
    ELSE Returns(t, v)

\* the expiry check and, when the token is expired, the validation and the
\* sending of self._post(token/auth_user)
RtCheck(t) ==
    /\ pc[t] = "rt_check"
    /\ IF RefreshTokenValid
       THEN /\ pc' = [pc EXCEPT ![t] = "rt_hit"]
            /\ UNCHANGED <<result, loc, hist, waits, attempt, arg>>
       ELSE IF CredentialsRejected(EffectiveMail(t), EffectivePassword(t))
            THEN Raises(t, "ValueError", NO_STATUS)
            ELSE /\ pc' = [pc EXCEPT ![t] = "login_wait"]
                 /\ hist' = [hist EXCEPT
                               ![t].logins = @ + 1,
                               ![t].loginWith = <<EffectiveMail(t), EffectivePassword(t)>>]
                 /\ UNCHANGED <<result, loc, waits, attempt, arg>>
    /\ UNCHANGED <<creds, config, env>>
    /\ UNCHANGED extraVars

\* return self._refresh_token of the unexpired branch
RtHit(t) ==
    /\ pc[t] = "rt_hit"
    /\ RtReturn(t, refresh_token)
    /\ UNCHANGED <<creds, config, env>>
    /\ UNCHANGED extraVars

\* the login request succeeds:
\* refresh_token = ret.json()["refreshToken"]; self._refresh_token = refresh_token
LoginOk(t) ==
    /\ pc[t] = "login_wait"
    /\ Budget
    /\ minted' = minted + 1
    /\ loc' = [loc EXCEPT ![t].resp = Mint("refresh")]
    /\ refresh_token' = Mint("refresh")
    /\ pc' = [pc EXCEPT ![t] = "rt_store_expire"]
    /\ hist' = Wrote(t, "refresh_token")
    /\ UNCHANGED <<refresh_token_expire, id_token, id_token_expire, config, now, ticks,
                   sleeps, arg, attempt, waits, result>>
    /\ UNCHANGED extraVars

\* the login request fails: the exception leaves get_refresh_token, and
\* get_id_token when that called it, unhandled
LoginFail(t) ==
    /\ pc[t] = "login_wait"
    /\ \E f \in Failures : Raises(t, f.exc, f.status)
    /\ UNCHANGED <<creds, config, env>>
    /\ UNCHANGED extraVars

\* self._refresh_token_expire = datetime.now(timezone.utc) + timedelta(days=6)
RtStoreExpire(t) ==
    /\ pc[t] = "rt_store_expire"
    /\ refresh_token_expire' = now + REFRESH_TOKEN_TTL
    /\ pc' = [pc EXCEPT ![t] = "rt_return"]
    /\ hist' = Wrote(t, "refresh_token_expire")
    /\ UNCHANGED <<refresh_token, id_token, id_token_expire, config, env, arg, loc,
                   attempt, waits, result>>
    /\ UNCHANGED extraVars

\* return self._refresh_token after the login
RtRet(t) ==
    /\ pc[t] = "rt_return"
    /\ RtReturn(t, refresh_token)
    /\ UNCHANGED <<creds, config, env>>
    /\ UNCHANGED extraVars

(* ----------------------------- get_id_token ---------------------------- *)
\* the comparison of the expiry check the wrong way round
IdTokenValidInverted == id_token_expire < now

\* self._id_token_expire > datetime.now(timezone.utc)
IdTokenValid == id_token_expire > now

\* the condition without its test of the refresh_token argument
ShouldRetryIgnoringArgument(t, f) ==
    /\ f.exc = "HTTPError"
    /\ f.status = BAD_REQUEST
    /\ mail_address # EMPTY
    /\ password # EMPTY

\* the condition under which get_id_token turns the failure f of the exchange
\* into TokenAuthRefreshBadRequestException
ShouldRetry(t, f) ==
    /\ f.exc = "HTTPError"
    /\ ~arg[t].refresh_token.some
    /\ f.status = BAD_REQUEST
    /\ mail_address # EMPTY
    /\ password # EMPTY

\* a backoff that takes min as the first wait and doubles it
WaitExponentialDoubling(n) == Min(WAIT_MIN * Pow2(n - 1), WAIT_MAX)

\* tenacity's wait_exponential after the failed attempt number n
WaitExponential(n) ==
    Max(Max(0, WAIT_MIN), Min(WAIT_MULTIPLIER * Pow2(n - 1), WAIT_MAX))

\* a decorator that gives up one attempt early
StopAfterAttemptEarly(n) == n >= STOP_AFTER_ATTEMPT - 1

\* tenacity's stop_after_attempt
StopAfterAttempt(n) == n >= STOP_AFTER_ATTEMPT

\* what the decorator raises to the caller once it stops retrying: tenacity's
\* RetryError (reraise is not set), which wraps the last attempt's exception
RetryExhausted(t) == Raises(t, "RetryError", loc[t].e.status)

\* a caller calls get_id_token(refresh_token); the decorator starts attempt 1
Call_get_id_token(t, rt) ==
    /\ pc[t] \in Finished
    /\ pc' = [pc EXCEPT ![t] = "id_check"]
    /\ arg' = [arg EXCEPT ![t] = [op |-> "get_id_token", refresh_token |-> rt,
                                  mail_address |-> None, password |-> None]]
    /\ attempt' = [attempt EXCEPT ![t] = 1]
    /\ result' = [result EXCEPT ![t] = NoResult]
    /\ UNCHANGED <<creds, config, env, loc, waits, hist>>
    /\ UNCHANGED extraVars

\* an expiry check that lets an explicit refresh token bypass the cached id
\* token: the argument is looked at before the expiry
IdCheckArgumentFirst(t) ==
    /\ pc[t] = "id_check"
    /\ IF arg[t].refresh_token.some
       THEN SendExchange(t, arg[t].refresh_token.v)
       ELSE IF IdTokenValid
            THEN /\ pc' = [pc EXCEPT ![t] = "id_hit"]
                 /\ UNCHANGED <<loc, hist>>
            ELSE /\ pc' = [pc EXCEPT ![t] = "rt_check"]
                 /\ UNCHANGED <<loc, hist>>
    /\ UNCHANGED <<creds, config, env, arg, attempt, waits, result>>
    /\ UNCHANGED extraVars

\* the expiry check; when the id token is expired, an explicit refresh token
\* goes straight into the exchange request, and get_refresh_token is called
\* otherwise
IdCheck(t) ==
    /\ pc[t] = "id_check"
    /\ IF IdTokenValid
       THEN /\ pc' = [pc EXCEPT ![t] = "id_hit"]
            /\ UNCHANGED <<loc, hist>>
       ELSE IF arg[t].refresh_token.some
            THEN SendExchange(t, arg[t].refresh_token.v)
            ELSE /\ pc' = [pc EXCEPT ![t] = "rt_check"]
                 /\ UNCHANGED <<loc, hist>>
    /\ UNCHANGED <<creds, config, env, arg, attempt, waits, result>>
    /\ UNCHANGED extraVars

\* return self._id_token of the unexpired branch
IdHit(t) ==
    /\ pc[t] = "id_hit"
    /\ Returns(t, id_token)
    /\ UNCHANGED <<creds, config, env>>
    /\ UNCHANGED extraVars

\* the exchange succeeds: id_token = ret.json()["idToken"]; self._id_token = id_token
ExOk(t) ==
    /\ pc[t] = "ex_wait"
    /\ Budget
    /\ minted' = minted + 1
    /\ loc' = [loc EXCEPT ![t].resp = Mint("id")]
    /\ id_token' = Mint("id")
    /\ pc' = [pc EXCEPT ![t] = "id_store_expire"]
    /\ hist' = Wrote(t, "id_token")
    /\ UNCHANGED <<refresh_token, refresh_token_expire, id_token_expire, config, now,
                   ticks, sleeps, arg, attempt, waits, result>>
    /\ UNCHANGED extraVars

\* the exchange fails: the except clause starts clearing the tokens with
\* self._refresh_token = "", or the exception leaves get_id_token (raise e, or
\* an exception that is no HTTPError)
ExFail(t) ==
    /\ pc[t] = "ex_wait"
    /\ \E f \in Failures :
         IF ShouldRetry(t, f)
         THEN /\ refresh_token' = EMPTY
              /\ pc' = [pc EXCEPT ![t] = "clear_refresh_token_expire"]
              /\ loc' = [loc EXCEPT ![t].e = f]
              /\ hist' = Wrote(t, "refresh_token")
              /\ UNCHANGED <<result, waits, attempt, arg>>
         ELSE /\ Raises(t, f.exc, f.status)
              /\ UNCHANGED refresh_token
    /\ UNCHANGED <<refresh_token_expire, id_token, id_token_expire, config, env>>
    /\ UNCHANGED extraVars

\* self._refresh_token_expire = datetime.now(timezone.utc)
ClearRefreshTokenExpire(t) ==
    /\ pc[t] = "clear_refresh_token_expire"
    /\ refresh_token_expire' = now
    /\ pc' = [pc EXCEPT ![t] = "clear_id_token"]
    /\ hist' = Wrote(t, "refresh_token_expire")
    /\ UNCHANGED <<refresh_token, id_token, id_token_expire, config, env, arg, loc,
                   attempt, waits, result>>
    /\ UNCHANGED extraVars

\* self._id_token = ""
ClearIdToken(t) ==
    /\ pc[t] = "clear_id_token"
    /\ id_token' = EMPTY
    /\ pc' = [pc EXCEPT ![t] = "clear_id_token_expire"]
    /\ hist' = Wrote(t, "id_token")
    /\ UNCHANGED <<refresh_token, refresh_token_expire, id_token_expire, config, env,
                   arg, loc, attempt, waits, result>>
    /\ UNCHANGED extraVars

\* self._id_token_expire = datetime.now(timezone.utc), then raise
\* TokenAuthRefreshBadRequestException(e): the decorator stops after the last
\* attempt, and sleeps before the next one otherwise
ClearIdTokenExpire(t) ==
    /\ pc[t] = "clear_id_token_expire"
    /\ id_token_expire' = now
    /\ IF StopAfterAttempt(attempt[t])
       THEN /\ RetryExhausted(t)
            /\ UNCHANGED sleeps
       ELSE /\ Budget
            /\ sleeps' = sleeps + 1
            /\ pc' = [pc EXCEPT ![t] = "sleep"]
            /\ waits' = [waits EXCEPT ![t] = Append(@, WaitExponential(attempt[t]))]
            /\ loc' = [loc EXCEPT ![t].wakeAt = now + WaitExponential(attempt[t])]
            /\ hist' = Wrote(t, "id_token_expire")
            /\ UNCHANGED <<result, attempt, arg>>
    /\ UNCHANGED <<refresh_token, refresh_token_expire, id_token, config, now, ticks,
                   minted>>
    /\ UNCHANGED extraVars

\* the sleep of the decorator ends, no earlier than the wait asked for, and the
\* next attempt starts
Wake(t) ==
    /\ pc[t] = "sleep"
    /\ now' = Max(now, loc[t].wakeAt)
    /\ attempt' = [attempt EXCEPT ![t] = @ + 1]
    /\ hist' = [hist EXCEPT ![t] = NoHist]
    /\ loc' = [loc EXCEPT ![t] = NoLoc]
    /\ pc' = [pc EXCEPT ![t] = "id_check"]
    /\ UNCHANGED <<creds, config, ticks, minted, sleeps, arg, waits, result>>
    /\ UNCHANGED extraVars

\* self._id_token_expire = datetime.now(timezone.utc) + timedelta(hours=23)
IdStoreExpire(t) ==
    /\ pc[t] = "id_store_expire"
    /\ id_token_expire' = now + ID_TOKEN_TTL
    /\ pc' = [pc EXCEPT ![t] = "id_return"]
    /\ hist' = Wrote(t, "id_token_expire")
    /\ UNCHANGED <<refresh_token, refresh_token_expire, id_token, config, env, arg, loc,
                   attempt, waits, result>>
    /\ UNCHANGED extraVars

\* return self._id_token after the exchange
IdRet(t) ==
    /\ pc[t] = "id_return"
    /\ Returns(t, id_token)
    /\ UNCHANGED <<creds, config, env>>
    /\ UNCHANGED extraVars

(* ---------------------------- environment ------------------------------ *)
\* time passes: a whole validity window goes by between two calls (within a
\* call the clock advances by the backoff sleeps)
Tick ==
    /\ Budget
    /\ ticks < MaxTicks
    /\ \A t \in Threads : pc[t] \in Finished
    /\ ticks' = ticks + 1
    /\ \E d \in TickSteps : now' = now + d
    /\ UNCHANGED <<creds, config, minted, sleeps, perThread>>
    /\ UNCHANGED extraVars

Next ==
    \/ \E t \in Threads : Call_get_id_token(t, None)
    \/ \E t \in Callers, rt \in ArgRefreshTokens \ {None} : Call_get_id_token(t, rt)
    \/ \E t \in Callers, c \in ArgCredentials : Call_get_refresh_token(t, c[1], c[2])
    \/ \E t \in Threads : IdCheck(t)
    \/ \E t \in Threads : IdHit(t)
    \/ \E t \in Threads : RtCheck(t)
    \/ \E t \in Threads : RtHit(t)
    \/ \E t \in Threads : LoginOk(t)
    \/ \E t \in Threads : LoginFail(t)
    \/ \E t \in Threads : RtStoreExpire(t)
    \/ \E t \in Threads : RtRet(t)
    \/ \E t \in Threads : ExOk(t)
    \/ \E t \in Threads : ExFail(t)
    \/ \E t \in Threads : ClearRefreshTokenExpire(t)
    \/ \E t \in Threads : ClearIdToken(t)
    \/ \E t \in Threads : ClearIdTokenExpire(t)
    \/ \E t \in Threads : Wake(t)
    \/ \E t \in Threads : IdStoreExpire(t)
    \/ \E t \in Threads : IdRet(t)
    \/ Tick

Spec == Init /\ [][Next]_vars

(* ---------------------- construction of a client ----------------------- *)
\* what _load_config returns and what the caller passes to JSONClient(...)
CtorConfigMails == {EMPTY, <<"m">>, <<"m", "@">>}
CtorConfigPasswords == {EMPTY, <<"p">>}
CtorConfigRefreshTokens == {EMPTY, <<"dummy_token">>}
CtorArgMails == {None} \cup {Some(m) : m \in CtorConfigMails}
CtorArgPasswords == {None} \cup {Some(p) : p \in CtorConfigPasswords}
CtorArgRefreshTokens == {None, Some(EMPTY), Some(<<"token">>)}
\* the times at which a client is constructed
CtorTimes == {0, ID_TOKEN_TTL}

\* self._x = config["x"]; if x is not None: self._x = x
Effective(a, c) == IF a.some THEN a.v ELSE c

\* an expiry that takes every refresh token, the empty one too, as just issued
InitialRefreshTokenExpireAlways(rt, t) == t + REFRESH_TOKEN_TTL

\* self._refresh_token_expire after lines 111-113
InitialRefreshTokenExpire(rt, t) == IF rt # EMPTY THEN t + REFRESH_TOKEN_TTL ELSE t

\* before JSONClient(...) is called: the attributes do not exist yet
ConstructInit ==
    /\ ctor \in [state : {"new"},
                 args : CtorArgRefreshTokens \X CtorArgMails \X CtorArgPasswords,
                 cfg : CtorConfigMails \X CtorConfigPasswords \X CtorConfigRefreshTokens]
    /\ now \in CtorTimes
    /\ mail_address = EMPTY
    /\ password = EMPTY
    /\ refresh_token = EMPTY
    /\ refresh_token_expire = 0
    /\ id_token = EMPTY
    /\ id_token_expire = 0
    /\ minted = 0
    /\ sleeps = 0
    /\ ticks = 0
    /\ pc = [t \in Threads |-> "idle"]
    /\ arg = [t \in Threads |-> NoArg]
    /\ loc = [t \in Threads |-> NoLoc]
    /\ attempt = [t \in Threads |-> 0]
    /\ waits = [t \in Threads |-> <<>>]
    /\ result = [t \in Threads |-> NoResult]
    /\ hist = [t \in Threads |-> NoHist]
    /\ dr = NoDr
    /\ NoRange
    /\ NoOther

\* JSONClient.__init__: the attributes are assigned, then the two checks raise
\* ValueError or the client is returned to the caller
Construct ==
    /\ ctor.state = "new"
    /\ mail_address' = Effective(ctor.args[2], ctor.cfg[1])
    /\ password' = Effective(ctor.args[3], ctor.cfg[2])
    /\ refresh_token' = Effective(ctor.args[1], ctor.cfg[3])
    /\ refresh_token_expire' = InitialRefreshTokenExpire(refresh_token', now)
    /\ id_token' = EMPTY
    /\ id_token_expire' = now
    /\ ctor' = [ctor EXCEPT !.state =
                  IF InitRaises(mail_address', password', refresh_token')
                  THEN "ValueError" ELSE "ok"]
    /\ UNCHANGED <<env, perThread, dateVars, rangeVars, otherVars>>

\* the caller of a constructed client uses get_refresh_token()
ConstructNext ==
    \/ Construct
    \/ /\ ctor.state = "ok"
       /\ \E t \in Callers :
            \/ Call_get_refresh_token(t, None, None)
            \/ RtCheck(t)
            \/ RtHit(t)
            \/ LoginOk(t)
            \/ LoginFail(t)
            \/ RtStoreExpire(t)
            \/ RtRet(t)

ConstructSpec == ConstructInit /\ [][ConstructNext]_vars

(* ------------------------------ date_range ----------------------------- *)
\* the Gregorian calendar of datetime; a date is counted in days, 2020-01-01
\* being day 1
EPOCH_YEAR == 2020
IsLeap(y) == (y % 4 = 0 /\ y % 100 # 0) \/ y % 400 = 0
DaysInMonth(y, m) ==
    IF m = 2 THEN (IF IsLeap(y) THEN 29 ELSE 28)
    ELSE IF m \in {4, 6, 9, 11} THEN 30 ELSE 31
RECURSIVE DaysBeforeMonth(_, _)
DaysBeforeMonth(y, m) ==
    IF m <= 1 THEN 0 ELSE DaysBeforeMonth(y, m - 1) + DaysInMonth(y, m - 1)
RECURSIVE DaysBeforeYear(_)
DaysBeforeYear(y) ==
    IF y <= EPOCH_YEAR THEN 0
    ELSE DaysBeforeYear(y - 1) + (IF IsLeap(y - 1) THEN 366 ELSE 365)
\* datetime(y, m, d) as a day count
ToOrdinal(y, m, d) == DaysBeforeYear(y) + DaysBeforeMonth(y, m) + d
\* the year, month and day of a day count
FromOrdinal(n) ==
    CHOOSE ymd \in {EPOCH_YEAR, EPOCH_YEAR + 1} \X (1..12) \X (1..31) :
        /\ ymd[3] <= DaysInMonth(ymd[1], ymd[2])
        /\ ToOrdinal(ymd[1], ymd[2], ymd[3]) = n

\* the characters of date strings
DigitChars == <<"0", "1", "2", "3", "4", "5", "6", "7", "8", "9">>
DigitValue(c) == (CHOOSE i \in 1..10 : DigitChars[i] = c) - 1
Digits2(n) == <<DigitChars[((n \div 10) % 10) + 1], DigitChars[(n % 10) + 1]>>
Digits4(n) == Digits2(n \div 100) \o Digits2(n % 100)
RECURSIVE Number(_)
Number(s) == IF s = <<>> THEN 0
             ELSE 10 * Number(SubSeq(s, 1, Len(s) - 1)) + DigitValue(s[Len(s)])

\* a datetime: its calendar day, its time of day in seconds, and its tzinfo
\* (None, or a fixed offset from UTC in seconds)
NAIVE == 0 - 1
Datetime(day, tod, tz) == [kind |-> "datetime", day |-> day, tod |-> tod, tz |-> tz]
Str(s) == [kind |-> "str", s |-> s]

\* s.strftime("%Y%m%d") and s.strftime("%Y-%m-%d")
Strftime8(dt) ==
    LET ymd == FromOrdinal(dt.day)
    IN Digits4(ymd[1]) \o Digits2(ymd[2]) \o Digits2(ymd[3])
StrftimeHyphen(dt) ==
    LET ymd == FromOrdinal(dt.day)
    IN Digits4(ymd[1]) \o <<"-">> \o Digits2(ymd[2]) \o <<"-">> \o Digits2(ymd[3])

\* datetime.strptime(s, "%Y-%m-%d") when "-" in s, else
\* datetime.strptime(s, "%Y%m%d"): a naive datetime at midnight
Strptime(s) ==
    IF \E i \in 1..Len(s) : s[i] = "-"
    THEN Datetime(ToOrdinal(Number(SubSeq(s, 1, 4)), Number(SubSeq(s, 6, 7)),
                            Number(SubSeq(s, 9, 10))), 0, NAIVE)
    ELSE Datetime(ToOrdinal(Number(SubSeq(s, 1, 4)), Number(SubSeq(s, 5, 6)),
                            Number(SubSeq(s, 7, 8))), 0, NAIVE)

\* the conversion of an argument at the head of date_range
ToDatetime(x) == IF x.kind = "str" THEN Strptime(x.s) ELSE x

\* a <= b of two datetimes raises TypeError when one is naive and the other
\* aware; aware datetimes compare as instants, naive ones as wall times
CompareRaises(a, b) == (a.tz = NAIVE) # (b.tz = NAIVE)
Instant(a) == a.day * 86400 + a.tod - (IF a.tz = NAIVE THEN 0 ELSE a.tz)
LessEq(a, b) == Instant(a) <= Instant(b)
\* current_date += timedelta(days=step_days)
PlusDays(a, n) == [a EXCEPT !.day = @ + n]


\* the days the arguments of date_range name, and their representations: the
\* two string formats, and datetimes without and with a timezone, at midnight
\* and at a time of day
FEB27 == ToOrdinal(2020, 2, 27)
MAR02 == ToOrdinal(2020, 3, 2)
StartDays == {FEB27, MAR02 - 1, MAR02}
EndDays == {FEB27 + 1, MAR02}
TimesOfDay == {0, 9 * 3600, 15 * 3600}
Timezones == {NAIVE, 0, 9 * 3600}
DateArgs(day) ==
    {Str(Strftime8(Datetime(day, 0, NAIVE))), Str(StrftimeHyphen(Datetime(day, 0, NAIVE)))}
    \cup {Datetime(day, tod, tz) : tod \in TimesOfDay, tz \in Timezones}

\* date_range(start_date, end_date) is called; a generator runs nothing yet
DateInit ==
    /\ \E ds \in StartDays, de \in EndDays :
         \E a \in DateArgs(ds), b \in DateArgs(de) :
            dr = [state |-> "new", start |-> a, end |-> b, cur |-> a, keys |-> <<>>]
    /\ ctor = NoCtor
    /\ mail_address = EMPTY
    /\ password = EMPTY
    /\ refresh_token = EMPTY
    /\ refresh_token_expire = 0
    /\ id_token = EMPTY
    /\ id_token_expire = 0
    /\ now = 0
    /\ minted = 0
    /\ sleeps = 0
    /\ ticks = 0
    /\ pc = [t \in Threads |-> "idle"]
    /\ arg = [t \in Threads |-> NoArg]
    /\ loc = [t \in Threads |-> NoLoc]
    /\ attempt = [t \in Threads |-> 0]
    /\ waits = [t \in Threads |-> <<>>]
    /\ result = [t \in Threads |-> NoResult]
    /\ hist = [t \in Threads |-> NoHist]
    /\ NoRange
    /\ NoOther

\* the first next() runs the head of date_range: both arguments become
\* datetimes, and current_date = start_date
DateRangeBegin ==
    /\ dr.state = "new"
    /\ dr' = [dr EXCEPT !.state = "loop", !.start = ToDatetime(dr.start),
                        !.end = ToDatetime(dr.end), !.cur = ToDatetime(dr.start)]
    /\ UNCHANGED <<creds, config, env, perThread, ctorVars, rangeVars, otherVars>>

\* while current_date <= end_date: yield current_date (the range fetch keys
\* its task by s.strftime("%Y%m%d")); current_date += timedelta(days=1)
DateRangeYield ==
    /\ dr.state = "loop"
    /\ ~CompareRaises(dr.cur, dr.end)
    /\ LessEq(dr.cur, dr.end)
    /\ dr' = [dr EXCEPT !.keys = Append(@, Strftime8(dr.cur)),
                        !.cur = PlusDays(dr.cur, 1)]
    /\ UNCHANGED <<creds, config, env, perThread, ctorVars, rangeVars, otherVars>>

\* the loop condition is false: the generator is exhausted
DateRangeStop ==
    /\ dr.state = "loop"
    /\ ~CompareRaises(dr.cur, dr.end)
    /\ ~LessEq(dr.cur, dr.end)
    /\ dr' = [dr EXCEPT !.state = "done"]
    /\ UNCHANGED <<creds, config, env, perThread, ctorVars, rangeVars, otherVars>>

\* the comparison of a naive with an aware datetime raises TypeError
DateRangeRaise ==
    /\ dr.state = "loop"
    /\ CompareRaises(dr.cur, dr.end)
    /\ dr' = [dr EXCEPT !.state = "TypeError"]
    /\ UNCHANGED <<creds, config, env, perThread, ctorVars, rangeVars, otherVars>>

DateNext == DateRangeBegin \/ DateRangeYield \/ DateRangeStop \/ DateRangeRaise

DateSpec == DateInit /\ [][DateNext]_vars


(* ----------------------------- range fetch ----------------------------- *)
\* tasks that the range fetches of one behaviour submit in total
MaxTasks == 7
\* requests of the range fetches that the upstream fails
MaxFailures == 1
\* ThreadPoolExecutor(max_workers=self.MAX_WORKERS)
MAX_WORKERS == 5
\* what a failed pre-load leads to: the exception leaves the range fetch
PreloadFailureIgnored == "submit"
PRELOAD_FAILED == "raised"

\* the (start_dt, end_dt) the callers pass: 6 dates across the leap day, one
\* more than the pool has workers; 3 dates that end with the leap day, a
\* Saturday; a single date
LongRange == <<StrftimeHyphen(Datetime(FEB27 - 1, 0, NAIVE)),
               Strftime8(Datetime(MAR02, 0, NAIVE))>>
ShortRanges == {<<Strftime8(Datetime(FEB27, 0, NAIVE)),
                  StrftimeHyphen(Datetime(FEB27 + 2, 0, NAIVE))>>,
                <<Strftime8(Datetime(MAR02, 0, NAIVE)),
                  Strftime8(Datetime(MAR02, 0, NAIVE))>>}
RangeArgs == {LongRange} \cup ShortRanges
\* JSONClient.get_price_range yields raw results; Client.get_price_range
\* returns one sorted frame
Modes == {"stream", "batch"}

\* [s.strftime("%Y%m%d") for s in date_range(start_dt, end_dt)]
\* (Client uses pd.date_range(start_dt, end_dt, freq="D"), the same days)
RECURSIVE DateRangeKeys(_, _)
DateRangeKeys(cur, end) ==
    IF LessEq(cur, end)
    THEN <<Strftime8(cur)>> \o DateRangeKeys(PlusDays(cur, 1), end)
    ELSE <<>>
RangeKeys == [a \in RangeArgs |->
                DateRangeKeys(ToDatetime(Str(a[1])), ToDatetime(Str(a[2])))]

\* the rows the upstream has for a date: none on the two weekend days, and a
\* row for each of two issue codes on the others, sorted by Code
Codes == <<1301, 1332>>
WeekendKeys == {Strftime8(Datetime(MAR02 - 2, 0, NAIVE)),
                Strftime8(Datetime(MAR02 - 1, 0, NAIVE))}
IsWeekend(key) == key \in WeekendKeys
DailyQuotes(key) ==
    IF IsWeekend(key) THEN <<>>
    ELSE [i \in 1..Len(Codes) |-> [Code |-> Codes[i], Date |-> Strptime(key).day]]

\* the requests on the wire
Post(path) == [method |-> "POST", path |-> path, auth |-> None]
Get(path, headers) == [method |-> "GET", path |-> path, auth |-> headers]
\* headers without the Authorization entry
BaseHeadersEmpty(id) == None
\* _base_headers: {"Authorization": f"Bearer {id_token}"}
BaseHeaders(id) == Some(id)

\* the upstream may fail one more request
MayFail ==
    Cardinality({f \in Fetches : fetch[f].state = "raised" /\ task[f] = <<>>})
    + Cardinality({x \in Fetches \X (1..MaxTasks) :
                     x[2] <= Len(task[x[1]]) /\ task[x[1]][x[2]].state = "failed"})
      < MaxFailures

\* get_id_token() as one step, on a client built from a refresh token alone
\* (no mail address: a failed exchange is not retried) whose refresh token
\* stays valid: it returns the cached token, or exchanges, stores and returns
\* a new one, or the exchange fails and the exception leaves it
IdTokenReturned ==
    IF id_token_expire > now
    THEN UNCHANGED <<creds, minted>>
    ELSE /\ Budget
         /\ minted' = minted + 1
         /\ id_token' = Mint("id")
         /\ id_token_expire' = now + ID_TOKEN_TTL
         /\ UNCHANGED <<refresh_token, refresh_token_expire>>
IdTokenRaised ==
    /\ id_token_expire <= now
    /\ MayFail
    /\ UNCHANGED <<creds, minted>>
\* the POST requests that call of get_id_token sends
ExchangePosts == IF id_token_expire > now THEN {} ELSE {Post("token/auth_refresh")}

RangeInit ==
    /\ mail_address = EMPTY
    /\ password = EMPTY
    /\ refresh_token = <<"dummy_token">>
    /\ now = 0
    /\ refresh_token_expire = now + REFRESH_TOKEN_TTL
    /\ id_token = EMPTY
    /\ id_token_expire = now
    /\ minted = 0
    /\ sleeps = 0
    /\ ticks = 0
    /\ pc = [t \in Threads |-> "idle"]
    /\ arg = [t \in Threads |-> NoArg]
    /\ loc = [t \in Threads |-> NoLoc]
    /\ attempt = [t \in Threads |-> 0]
    /\ waits = [t \in Threads |-> <<>>]
    /\ result = [t \in Threads |-> NoResult]
    /\ hist = [t \in Threads |-> NoHist]
    /\ ctor = NoCtor
    /\ dr = NoDr
    /\ NoRange
    /\ NoOther

\* the tasks of fetch f in a state
TasksIn(f, st) == {k \in 1..Len(task[f]) : task[f][k].state = st}
Running(f) == TasksIn(f, "running")
Ended(f) == TasksIn(f, "done") \cup TasksIn(f, "failed")
\* tasks planned by the fetches called so far
Planned == LET n(f) == Len(fetch[f].keys)
           IN n("f1") + n("f2")

\* a caller calls get_price_range(start_dt, end_dt) (and, for the generator
\* of JSONClient, asks for the first result)
RangeCall(f, mode, a) ==
    /\ fetch[f].state = "idle"
    /\ LET keys == RangeKeys[a]
       IN /\ Planned + Len(keys) <= MaxTasks
          /\ fetch' = [fetch EXCEPT ![f] = [NoFetch EXCEPT !.state = "preload",
                                                         !.mode = mode, !.keys = keys]]
    /\ UNCHANGED <<creds, config, env, perThread, ctorVars, dateVars, otherVars, task, finished, sent>>

\* # pre-load id_token: self.get_id_token()
Preload(f) ==
    /\ fetch[f].state = "preload"
    /\ \/ /\ IdTokenReturned
          /\ fetch' = [fetch EXCEPT ![f].state = "submit"]
       \/ /\ IdTokenRaised
          /\ fetch' = [fetch EXCEPT ![f].state = PRELOAD_FAILED]
    /\ sent' = sent \cup ExchangePosts
    /\ UNCHANGED <<config, now, ticks, sleeps, perThread, ctorVars, dateVars, otherVars, task, finished>>

\* executor.submit(self.get_prices_daily_quotes, date_yyyymmdd=...) for the
\* next date of the range
Submit(f) ==
    /\ fetch[f].state = "submit"
    /\ Len(task[f]) < Len(fetch[f].keys)
    /\ task' = [task EXCEPT ![f] = Append(@, [key |-> fetch[f].keys[Len(task[f]) + 1],
                                               state |-> "queued"])]
    /\ UNCHANGED <<creds, config, env, perThread, ctorVars, dateVars, otherVars, fetch, finished, sent>>

\* as_completed(futures) starts: the futures that are finished by now (early
\* counts them) are handed out first, in the order of a set
Collect(f) ==
    /\ fetch[f].state = "submit"
    /\ Len(task[f]) = Len(fetch[f].keys)
    /\ fetch' = [fetch EXCEPT ![f].state = "collect", ![f].initial = Ended(f),
                              ![f].early = Len(finished[f])]
    /\ UNCHANGED <<creds, config, env, perThread, ctorVars, dateVars, otherVars, task, finished, sent>>


\* the endpoint of the per-date call: get_prices_daily_quotes, or
\* get_fins_statements in get_statements_range
Endpoint(f) == IF fetch[f].mode = "cached" THEN "fins/statements" ELSE "prices/daily_quotes"

\* a pool without a limit on its threads
PoolHasFreeWorkerAlways(f) == TRUE
\* the pool of fetch f starts a queued task when fewer than max_workers of its
\* threads are busy
PoolHasFreeWorker(f) == Cardinality(Running(f)) < MAX_WORKERS

\* a pool that drops its queue once a failure is handed to the caller: queued
\* tasks are started only while the fetch has seen no failed task
TaskStartUnlessFailing(f, k) ==
    /\ fetch[f].state \in {"submit", "collect"}
    /\ k \in TasksIn(f, "queued")
    /\ \A j \in TasksIn(f, "queued") : k <= j
    /\ PoolHasFreeWorker(f)
    /\ \/ /\ IdTokenReturned
          /\ task' = [task EXCEPT ![f][k].state = "running"]
          /\ sent' = sent \cup ExchangePosts
                          \cup {Get(Endpoint(f), BaseHeaders(id_token'))}
          /\ UNCHANGED finished
       \/ /\ IdTokenRaised
          /\ task' = [task EXCEPT ![f][k].state = "failed"]
          /\ sent' = sent \cup ExchangePosts
          /\ finished' = [finished EXCEPT ![f] = Append(@, k)]
    /\ UNCHANGED <<config, now, ticks, sleeps, perThread, ctorVars, dateVars, otherVars, fetch>>

\* a worker thread of the pool of f takes the oldest queued task k and runs
\* get_prices_daily_quotes up to the sending of the GET: _base_headers calls
\* get_id_token(), whose result goes into the Authorization header; an
\* exception of get_id_token ends the task
TaskStart(f, k) ==
    /\ fetch[f].state \in {"submit", "collect", "failing"}
    /\ k \in TasksIn(f, "queued")
    /\ \A j \in TasksIn(f, "queued") : k <= j
    /\ PoolHasFreeWorker(f)
    /\ \/ /\ IdTokenReturned
          /\ task' = [task EXCEPT ![f][k].state = "running"]
          /\ sent' = sent \cup ExchangePosts
                          \cup {Get(Endpoint(f), BaseHeaders(id_token'))}
          /\ UNCHANGED finished
       \/ /\ IdTokenRaised
          /\ task' = [task EXCEPT ![f][k].state = "failed"]
          /\ sent' = sent \cup ExchangePosts
          /\ finished' = [finished EXCEPT ![f] = Append(@, k)]
    /\ UNCHANGED <<config, now, ticks, sleeps, perThread, ctorVars, dateVars, otherVars, fetch>>

\* the response of the GET of task k arrives: the task returns ret.text, or
\* raise_for_status raises and the task ends with the exception
TaskFinish(f, k) ==
    /\ k \in Running(f)
    /\ \E st \in {"done"} \cup (IF MayFail THEN {"failed"} ELSE {}) :
         task' = [task EXCEPT ![f][k].state = st]
    /\ finished' = [finished EXCEPT ![f] = Append(@, k)]
    /\ UNCHANGED <<creds, config, env, perThread, ctorVars, dateVars, otherVars, fetch, sent>>

Range(s) == {s[i] : i \in 1..Len(s)}
\* the positions in the completion order of the tasks that as_completed has
\* still to hand out after the first batch
Awaited(f) == {i \in 1..Len(finished[f]) :
                 finished[f][i] \notin fetch[f].initial \cup Range(fetch[f].out)}
\* handing the finished tasks out by their place in the list of futures
NextCompletedBySubmission(f) ==
    CHOOSE k \in {finished[f][i] : i \in Awaited(f)} :
        \A j \in {finished[f][i] : i \in Awaited(f)} : k <= j
\* the task as_completed hands out next: the one that completed first
NextCompleted(f) ==
    finished[f][CHOOSE i \in Awaited(f) : \A j \in Awaited(f) : i <= j]

\* for future in as_completed(futures): yield future.result() (JSONClient) or
\* buff.append(future.result()) (Client); the result() of a failed task raises
Yield(f) ==
    /\ fetch[f].state = "collect"
    /\ Len(fetch[f].out) < Len(fetch[f].keys)
    /\ \E k \in 1..Len(task[f]) :
         /\ IF fetch[f].initial # {} THEN k \in fetch[f].initial
            ELSE Awaited(f) # {} /\ k = NextCompleted(f)
         /\ IF task[f][k].state = "done"
            THEN fetch' = [fetch EXCEPT ![f].out = Append(@, k),
                                        ![f].initial = @ \ {k}]
            ELSE fetch' = [fetch EXCEPT ![f].state = "failing"]
    /\ UNCHANGED <<creds, config, env, perThread, ctorVars, dateVars, otherVars, task, finished, sent>>

\* sort_values(["Code", "Date"]): rows with equal keys keep their order
RowLessEq(a, b) == a.Code < b.Code \/ (a.Code = b.Code /\ a.Date <= b.Date)
RECURSIVE InsertRow(_, _)
InsertRow(sorted, r) ==
    IF sorted = <<>> THEN <<r>>
    ELSE IF RowLessEq(sorted[Len(sorted)], r) THEN Append(sorted, r)
    ELSE Append(InsertRow(SubSeq(sorted, 1, Len(sorted) - 1), r), sorted[Len(sorted)])
RECURSIVE SortValuesStable(_)
SortValuesStable(rows) ==
    IF rows = <<>> THEN <<>>
    ELSE InsertRow(SortValuesStable(SubSeq(rows, 1, Len(rows) - 1)), rows[Len(rows)])
\* a frame left in the order of its rows
SortValuesNone(rows) == rows
SortValues(rows) == SortValuesStable(rows)
\* pd.concat(buff) of the results of the tasks in the order given
RECURSIVE Concat(_, _)
Concat(f, order) ==
    IF order = <<>> THEN <<>>
    ELSE DailyQuotes(task[f][order[1]].key) \o Concat(f, SubSeq(order, 2, Len(order)))

\* every result is handed out: the with block ends (all tasks have ended), the
\* generator of JSONClient is exhausted, and Client returns
\* pd.concat(buff).sort_values(["Code", "Date"])
RangeReturn(f) ==
    /\ fetch[f].state = "collect"
    /\ Len(fetch[f].out) = Len(fetch[f].keys)
    /\ fetch' = [fetch EXCEPT ![f].state = "done",
                              ![f].merged = IF fetch[f].mode = "batch"
                                            THEN SortValues(Concat(f, fetch[f].out))
                                            ELSE <<>>]
    /\ UNCHANGED <<creds, config, env, perThread, ctorVars, dateVars, otherVars, task, finished, sent>>

\* leaving the with block without waiting for the pool
ShutdownNoWait(f) == TRUE
\* the with block is left through executor.shutdown(wait=True), which returns
\* when every submitted task, queued ones included, has ended
ShutdownWaited(f) == Ended(f) = 1..Len(task[f])

\* the exception of a failed task leaves the with block, whose shutdown waits
\* for every task of the pool to end, and then reaches the caller
RangeRaise(f) ==
    /\ fetch[f].state = "failing"
    /\ ShutdownWaited(f)
    /\ fetch' = [fetch EXCEPT ![f].state = "raised"]
    /\ UNCHANGED <<creds, config, env, perThread, ctorVars, dateVars, otherVars, task, finished, sent>>

\* the validity window of the id token goes by (the refresh token stays valid)
RangeTick ==
    /\ Budget
    /\ ticks < MaxTicks
    /\ now + ID_TOKEN_TTL < refresh_token_expire
    /\ now' = now + ID_TOKEN_TTL
    /\ ticks' = ticks + 1
    /\ UNCHANGED <<creds, config, minted, sleeps, perThread, extraVars>>

\* what the caller holds in its buffer of results
DeliveredBuffer(f) == fetch[f].out
\* the per-date results the caller of fetch f has obtained: the generator of
\* JSONClient hands each result over at its yield; Client keeps them in buff,
\* a local that the caller only gets, merged, with the return
Delivered(f) ==
    IF fetch[f].mode = "stream" \/ fetch[f].state = "done" THEN fetch[f].out ELSE <<>>

\* one caller fetches a short range
RangeNext ==
    \/ \E mode \in Modes, a \in ShortRanges : RangeCall("f1", mode, a)
    \/ Preload("f1")
    \/ Submit("f1")
    \/ Collect("f1")
    \/ \E k \in 1..MaxTasks : TaskStart("f1", k)
    \/ \E k \in 1..MaxTasks : TaskFinish("f1", k)
    \/ Yield("f1")
    \/ RangeReturn("f1")
    \/ RangeRaise("f1")
    \/ RangeTick
RangeSpec == RangeInit /\ [][RangeNext]_vars

\* the steps of the thread that called the range fetch up to its last result
\* (for the generator of JSONClient: of a consumer that keeps asking for the
\* next result)
CallerStep(f) ==
    \/ Preload(f)
    \/ Submit(f)
    \/ Collect(f)
    \/ Yield(f)
    \/ RangeRaise(f)

\* the calling thread has every result and has not yet left the with block:
\* the condition under which RangeReturn is its next step
ReturnDue(f) ==
    fetch[f].state = "collect" /\ Len(fetch[f].out) = Len(fetch[f].keys)

\* a worker thread of the pool takes a queued task
PoolStep(f) == \E k \in 1..MaxTasks : TaskStart(f, k)

\* the per-date call of a running task ends: its response or its error arrives
CallEnds(f) == \E k \in 1..MaxTasks : TaskFinish(f, k)

\* the range fetch of one caller under the scheduling the code relies on: the
\* calling thread keeps running (for its last step, RangeReturn, the weak
\* fairness is stated by the condition that enables it), the worker threads of
\* the pool take queued tasks while one of them is free, and a per-date call
\* that is running terminates
RangeLiveSpec ==
    /\ RangeInit
    /\ [][RangeNext]_vars
    /\ WF_vars(CallerStep("f1"))
    /\ []<>(~ReturnDue("f1"))
    /\ WF_vars(PoolStep("f1"))
    /\ WF_vars(CallEnds("f1"))

\* two callers fetch ranges through the same client at the same time. The
\* schedules followed are the ones without a failure in which the tasks of a
\* fetch end, and are handed out, in the order of their submission: they leave
\* open how many tasks run at a time
Ascending(s) == \A i \in 1..(Len(s) - 1) : s[i] < s[i + 1]
Orderly ==
    \A f \in Fetches :
        /\ Ascending(finished[f])
        /\ Ascending(fetch[f].out)
        /\ TasksIn(f, "failed") = {}
        /\ fetch[f].state \notin {"failing", "raised"}
\* the first caller fetches the long range, the second a short one
CallerArgs == [f \in Fetches |-> IF f = "f1" THEN {LongRange} ELSE ShortRanges]
PoolInit == RangeInit
PoolNext ==
    \/ \E f \in Fetches, mode \in Modes :
         \E a \in CallerArgs[f] : RangeCall(f, mode, a) /\ Orderly'
    \/ \E f \in Fetches : Preload(f) /\ Orderly'
    \/ \E f \in Fetches : Submit(f) /\ Orderly'
    \/ \E f \in Fetches : Collect(f) /\ Orderly'
    \/ \E f \in Fetches, k \in 1..MaxTasks : TaskStart(f, k) /\ Orderly'
    \/ \E f \in Fetches, k \in 1..MaxTasks : TaskFinish(f, k) /\ Orderly'
    \/ \E f \in Fetches : Yield(f) /\ Orderly'
    \/ \E f \in Fetches : RangeReturn(f) /\ Orderly'
PoolSpec == PoolInit /\ [][PoolNext]_vars

(* ------------------------ cached range fetch --------------------------- *)
\* Client.get_statements_range(start_dt, end_dt, cache_dir)
CacheDirs == {"", "cache"}
\* the dates that may have a file fins_statements_{yyyymmdd}.csv.gz
CachedRange == <<Strftime8(Datetime(FEB27, 0, NAIVE)),
                 StrftimeHyphen(Datetime(FEB27 + 2, 0, NAIVE))>>
\* the statements disclosed on a date, as get_fins_statements returns them
\* (with Timestamp columns) and as pd.read_csv reads them back from a file
\* (with text columns)
Statements(key, via) ==
    IF IsWeekend(key) THEN <<>>
    ELSE <<[DisclosedUnixTime |-> Strptime(key).day * 86400,
            DisclosureNumber |-> Strptime(key).day, via |-> via]>>

CacheInit ==
    /\ mail_address = EMPTY
    /\ password = EMPTY
    /\ refresh_token = <<"dummy_token">>
    /\ now = 0
    /\ refresh_token_expire = now + REFRESH_TOKEN_TTL
    /\ id_token = EMPTY
    /\ id_token_expire = now
    /\ minted = 0
    /\ sleeps = 0
    /\ ticks = 0
    /\ pc = [t \in Threads |-> "idle"]
    /\ arg = [t \in Threads |-> NoArg]
    /\ loc = [t \in Threads |-> NoLoc]
    /\ attempt = [t \in Threads |-> 0]
    /\ waits = [t \in Threads |-> <<>>]
    /\ result = [t \in Threads |-> NoResult]
    /\ hist = [t \in Threads |-> NoHist]
    /\ ctor = NoCtor
    /\ dr = NoDr
    /\ NoRange
    /\ \E d \in CacheDirs, files \in SUBSET Range(RangeKeys[CachedRange]) :
         /\ d = "" => files = {}
         /\ cache = [NoCache EXCEPT !.dir = d, !.files = files]
    /\ load = NoLoad
    /\ http = NoHttp
    /\ sess = NoSess

\* a caller calls get_statements_range(start_dt, end_dt, cache_dir)
StatementsCall(f, a) ==
    /\ fetch[f].state = "idle"
    /\ Planned + Len(RangeKeys[a]) <= MaxTasks
    /\ fetch' = [fetch EXCEPT ![f] = [NoFetch EXCEPT !.state = "preload", !.mode = "cached",
                                                   !.keys = RangeKeys[a]]]
    /\ UNCHANGED <<creds, config, env, perThread, ctorVars, dateVars, otherVars, task,
                   finished, sent>>

\* a lookup that finds no file
CacheFileNever(key) == FALSE
\* (cache_dir != "") and os.path.isfile(f"{cache_dir}/{yyyy}/{cache_file}") for
\* the date the loop is at
CacheFileExists(key) == cache.dir # "" /\ key \in cache.files

\* for s in dates, a date with a cache file: buff.append(pd.read_csv(...))
CacheHit(f) ==
    /\ fetch[f].state = "submit" /\ fetch[f].mode = "cached"
    /\ cache.pos < Len(fetch[f].keys)
    /\ LET key == fetch[f].keys[cache.pos + 1]
       IN /\ CacheFileExists(key)
          /\ cache' = [cache EXCEPT !.pos = @ + 1, !.hits = Append(@, key)]
    /\ UNCHANGED <<creds, config, env, perThread, ctorVars, dateVars, rangeVars, load, http,
                   sess>>

\* for s in dates, a date without one:
\* futures[executor.submit(self.get_fins_statements, date_yyyymmdd=yyyymmdd)] = yyyymmdd
CacheMiss(f) ==
    /\ fetch[f].state = "submit" /\ fetch[f].mode = "cached"
    /\ cache.pos < Len(fetch[f].keys)
    /\ LET key == fetch[f].keys[cache.pos + 1]
       IN /\ ~CacheFileExists(key)
          /\ task' = [task EXCEPT ![f] = Append(@, [key |-> key, state |-> "queued"])]
          /\ cache' = [cache EXCEPT !.pos = @ + 1]
    /\ UNCHANGED <<creds, config, env, perThread, ctorVars, dateVars, fetch, finished, sent,
                   load, http, sess>>

\* as_completed(futures) starts after the loop over the dates
StatementsCollect(f) ==
    /\ fetch[f].state = "submit" /\ fetch[f].mode = "cached"
    /\ cache.pos = Len(fetch[f].keys)
    /\ fetch' = [fetch EXCEPT ![f].state = "collect", ![f].initial = Ended(f),
                              ![f].early = Len(finished[f])]
    /\ UNCHANGED <<creds, config, env, perThread, ctorVars, dateVars, otherVars, task,
                   finished, sent>>

\* if cache_dir != "": os.makedirs(...); df.to_csv(f"{cache_dir}/{yyyy}/{cache_file}")
WriteThrough(key) ==
    IF cache.dir # ""
    THEN [cache EXCEPT !.files = @ \cup {key}, !.writes = Append(@, key)]
    ELSE cache

\* for future in as_completed(futures): df = future.result(); buff.append(df)
\* and the write of the cache file of the date of the future
StatementsYield(f) ==
    /\ fetch[f].state = "collect" /\ fetch[f].mode = "cached"
    /\ Len(fetch[f].out) < Len(task[f])
    /\ \E k \in 1..Len(task[f]) :
         /\ IF fetch[f].initial # {} THEN k \in fetch[f].initial
            ELSE Awaited(f) # {} /\ k = NextCompleted(f)
         /\ IF task[f][k].state = "done"
            THEN /\ fetch' = [fetch EXCEPT ![f].out = Append(@, k),
                                           ![f].initial = @ \ {k}]
                 /\ cache' = WriteThrough(task[f][k].key)
            ELSE /\ fetch' = [fetch EXCEPT ![f].state = "failing"]
                 /\ UNCHANGED cache
    /\ UNCHANGED <<creds, config, env, perThread, ctorVars, dateVars, task, finished, sent,
                   load, http, sess>>

\* sort_values(["DisclosedUnixTime", "DisclosureNumber"])
StatementLessEq(a, b) ==
    \/ a.DisclosedUnixTime < b.DisclosedUnixTime
    \/ a.DisclosedUnixTime = b.DisclosedUnixTime /\ a.DisclosureNumber <= b.DisclosureNumber
RECURSIVE InsertStatement(_, _)
InsertStatement(sorted, r) ==
    IF sorted = <<>> THEN <<r>>
    ELSE IF StatementLessEq(sorted[Len(sorted)], r) THEN Append(sorted, r)
    ELSE Append(InsertStatement(SubSeq(sorted, 1, Len(sorted) - 1), r), sorted[Len(sorted)])
RECURSIVE SortStatements(_)
SortStatements(rows) ==
    IF rows = <<>> THEN <<>>
    ELSE InsertStatement(SortStatements(SubSeq(rows, 1, Len(rows) - 1)), rows[Len(rows)])
\* buff: the frames read from the cache in the loop over the dates, then the
\* results of the futures in the order they were handed out
RECURSIVE Buff(_, _, _)
Buff(f, hits, out) ==
    IF hits # <<>> THEN Statements(hits[1], "read_csv") \o Buff(f, Tail(hits), out)
    ELSE IF out # <<>>
    THEN Statements(task[f][out[1]].key, "get_fins_statements") \o Buff(f, hits, Tail(out))
    ELSE <<>>

\* return pd.concat(buff).sort_values(["DisclosedUnixTime", "DisclosureNumber"])
StatementsReturn(f) ==
    /\ fetch[f].state = "collect" /\ fetch[f].mode = "cached"
    /\ Len(fetch[f].out) = Len(task[f])
    /\ fetch' = [fetch EXCEPT ![f].state = "done",
                              ![f].merged = SortStatements(Buff(f, cache.hits, fetch[f].out))]
    /\ UNCHANGED <<creds, config, env, perThread, ctorVars, dateVars, otherVars, task,
                   finished, sent>>

\* one caller fetches the statements of a short range
CacheNext ==
    \/ \E a \in ShortRanges : StatementsCall("f1", a)
    \/ Preload("f1")
    \/ CacheHit("f1")
    \/ CacheMiss("f1")
    \/ StatementsCollect("f1")
    \/ \E k \in 1..MaxTasks : TaskStart("f1", k)
    \/ \E k \in 1..MaxTasks : TaskFinish("f1", k)
    \/ StatementsYield("f1")
    \/ StatementsReturn("f1")
    \/ RangeRaise("f1")
CacheSpec == CacheInit /\ [][CacheNext]_vars

(* --------------------------- configuration ----------------------------- *)
\* the keys of the configuration
ConfigKeys == {"mail_address", "password", "refresh_token"}
\* the config files in the order _load_config reads them: the colab file, the
\* file in the user's home, the file in the current directory, the file named
\* by JQUANTS_API_CLIENT_CONFIG_FILE
ConfigFiles == <<"colab", "user", "current", "env_file">>
\* what a config file may be: not a file, a toml file without the
\* 'jquants-api-client' table, or one whose table defines the keys listed
FileKinds == {"absent", "no_table", "mail_address", "all"}
\* the individual environment variables: unset, all set, or
\* JQUANTS_API_MAIL_ADDRESS set to the empty string
EnvKinds == {"unset", "all", "empty_mail_address"}
\* the arguments of the constructor: all None, the refresh token alone, all
\* three, or an empty password alone
ArgKinds == {"none", "refresh_token", "all", "empty_password"}
\* the value a source holds for a key: its own
ValueIn(source, k) == <<source, k>>

\* a dict as a function from its keys: the table of a file, os.environ for the
\* three variables, the arguments that are not None
Table(name, kind) ==
    [k \in (CASE kind = "all" -> ConfigKeys
              [] kind = "mail_address" -> {"mail_address"}
              [] OTHER -> {}) |-> ValueIn(name, k)]
Environ(kind) ==
    [k \in (CASE kind = "all" -> ConfigKeys
              [] kind = "empty_mail_address" -> {"mail_address"}
              [] OTHER -> {}) |-> IF kind = "all" THEN ValueIn("environ", k) ELSE EMPTY]
Arguments(kind) ==
    [k \in (CASE kind = "all" -> ConfigKeys
              [] kind = "refresh_token" -> {"refresh_token"}
              [] kind = "empty_password" -> {"password"}
              [] OTHER -> {}) |-> IF kind = "empty_password" THEN EMPTY
                                  ELSE ValueIn("argument", k)]

\* _read_config: {} unless the path is a file with the table
ReadConfig(name, kind) ==
    IF kind = "absent" THEN <<>>
    ELSE IF kind = "no_table" THEN <<>>
    ELSE Table(name, kind)
\* a merge in which the earlier source wins
MergeKeepingFirst(cfg, read) ==
    [k \in DOMAIN cfg \cup DOMAIN read |->
        IF k \in DOMAIN cfg THEN cfg[k] ELSE read[k]]
\* {**config, **read}
Merge(cfg, read) ==
    [k \in DOMAIN cfg \cup DOMAIN read |->
        IF k \in DOMAIN read THEN read[k] ELSE cfg[k]]
\* d.get(k, default)
DictGet(d, k, default) == IF k \in DOMAIN d THEN d[k] ELSE default

LoadInit ==
    /\ mail_address = EMPTY
    /\ password = EMPTY
    /\ refresh_token = EMPTY
    /\ now = 0
    /\ refresh_token_expire = now
    /\ id_token = EMPTY
    /\ id_token_expire = now
    /\ minted = 0
    /\ sleeps = 0
    /\ ticks = 0
    /\ pc = [t \in Threads |-> "idle"]
    /\ arg = [t \in Threads |-> NoArg]
    /\ loc = [t \in Threads |-> NoLoc]
    /\ attempt = [t \in Threads |-> 0]
    /\ waits = [t \in Threads |-> <<>>]
    /\ result = [t \in Threads |-> NoResult]
    /\ hist = [t \in Threads |-> NoHist]
    /\ ctor = NoCtor
    /\ dr = NoDr
    /\ NoRange
    /\ cache = NoCache
    /\ \E files \in [1..Len(ConfigFiles) -> FileKinds], colab \in BOOLEAN,
          named \in BOOLEAN, environ \in EnvKinds, args \in ArgKinds :
         load = [state |-> "colab", files |-> files, is_colab |-> colab,
                 env_file_named |-> named, environ |-> environ, args |-> args,
                 config |-> <<>>]
    /\ http = NoHttp
    /\ sess = NoSess

\* the next config file of _load_config: the colab file is read when
\* _is_colab(), the file of the environment when the variable is set, the two
\* others always
LoadFile(i) ==
    /\ load.state = ConfigFiles[i]
    /\ LET read == IF \/ ConfigFiles[i] = "colab" /\ ~load.is_colab
                      \/ ConfigFiles[i] = "env_file" /\ ~load.env_file_named
                   THEN load.config
                   ELSE Merge(load.config, ReadConfig(ConfigFiles[i], load.files[i]))
       IN load' = [load EXCEPT !.config = read,
                               !.state = IF i < Len(ConfigFiles) THEN ConfigFiles[i + 1]
                                         ELSE "environ"]
    /\ UNCHANGED <<creds, config, env, perThread, ctorVars, dateVars, rangeVars, cache, http,
                   sess>>

\* config[k] = os.environ.get(K, config.get(k, "")) for the three keys
LoadEnviron ==
    /\ load.state = "environ"
    /\ load' = [load EXCEPT
                  !.config = [k \in ConfigKeys |->
                                DictGet(Environ(load.environ), k,
                                        DictGet(load.config, k, EMPTY))],
                  !.state = "loaded"]
    /\ UNCHANGED <<creds, config, env, perThread, ctorVars, dateVars, rangeVars, cache, http,
                   sess>>

\* __init__: self._x = config[x]; if x is not None: self._x = x
LoadAttributes ==
    /\ load.state = "loaded"
    /\ LET attribute(k) == DictGet(Arguments(load.args), k, load.config[k])
       IN /\ mail_address' = attribute("mail_address")
          /\ password' = attribute("password")
          /\ refresh_token' = attribute("refresh_token")
    /\ load' = [load EXCEPT !.state = "done"]
    /\ UNCHANGED <<refresh_token_expire, id_token, id_token_expire, env, perThread, ctorVars,
                   dateVars, rangeVars, cache, http, sess>>

LoadNext ==
    \/ \E i \in 1..Len(ConfigFiles) : LoadFile(i)
    \/ LoadEnviron
    \/ LoadAttributes
LoadSpec == LoadInit /\ [][LoadNext]_vars

(* ------------------------------ transport ------------------------------ *)
\* Retry(total=3, status_forcelist=status_forcelist, allowed_methods=allowed_methods)
RETRY_TOTAL == 3
STATUS_FORCELIST == {429, 500, 502, 503, 504}
ALLOWED_METHODS == {"HEAD", "GET", "OPTIONS", "POST"}
\* s.get of _get and s.post of _post
Methods == {"GET", "POST"}
\* the statuses the upstream answers with
Statuses == {200, 400, 401, 404} \cup STATUS_FORCELIST

\* a retry policy that leaves POST out
IsRetryWithoutPost(method, status) == method = "GET" /\ status \in STATUS_FORCELIST
\* Retry.is_retry: the method is allowed and the status is in the forcelist
IsRetry(method, status) == method \in ALLOWED_METHODS /\ status \in STATUS_FORCELIST
\* Response.raise_for_status raises HTTPError for 4xx and 5xx
RaisesForStatus(status) == status >= 400 /\ status < 600

HttpInit ==
    /\ mail_address = EMPTY
    /\ password = EMPTY
    /\ refresh_token = <<"dummy_token">>
    /\ now = 0
    /\ refresh_token_expire = now + REFRESH_TOKEN_TTL
    /\ id_token = EMPTY
    /\ id_token_expire = now
    /\ minted = 0
    /\ sleeps = 0
    /\ ticks = 0
    /\ pc = [t \in Threads |-> "idle"]
    /\ arg = [t \in Threads |-> NoArg]
    /\ loc = [t \in Threads |-> NoLoc]
    /\ attempt = [t \in Threads |-> 0]
    /\ waits = [t \in Threads |-> <<>>]
    /\ result = [t \in Threads |-> NoResult]
    /\ hist = [t \in Threads |-> NoHist]
    /\ ctor = NoCtor
    /\ dr = NoDr
    /\ NoRange
    /\ cache = NoCache
    /\ load = NoLoad
    /\ \E m \in Methods :
         http = [state |-> "ready", method |-> m, total |-> RETRY_TOTAL, sends |-> 0,
                 history |-> <<>>, exc |-> "none"]
    /\ sess = NoSess

\* the adapter sends the request: the first time, or again after a retry
HttpSend ==
    /\ http.state \in {"ready", "retry"}
    /\ http' = [http EXCEPT !.state = "sent", !.sends = @ + 1]
    /\ UNCHANGED <<creds, config, env, perThread, ctorVars, dateVars, rangeVars, cache, load,
                   sess>>

\* a response arrives. For a status to retry, Retry.increment takes one from
\* total and the request is sent again unless total has fallen below 0, when
\* MaxRetryError ends the call as requests.exceptions.RetryError; any other
\* response is returned to _get / _post, whose raise_for_status raises
\* HTTPError for an error status
HttpRespond(status) ==
    /\ http.state = "sent"
    /\ http' = [http EXCEPT
                  !.history = Append(@, status),
                  !.total = IF IsRetry(http.method, status) THEN @ - 1 ELSE @,
                  !.state = IF IsRetry(http.method, status)
                            THEN IF http.total - 1 < 0 THEN "raised" ELSE "retry"
                            ELSE IF RaisesForStatus(status) THEN "raised" ELSE "returned",
                  !.exc = IF IsRetry(http.method, status)
                          THEN IF http.total - 1 < 0 THEN "RetryError" ELSE "none"
                          ELSE IF RaisesForStatus(status) THEN "HTTPError" ELSE "none"]
    /\ UNCHANGED <<creds, config, env, perThread, ctorVars, dateVars, rangeVars, cache, load,
                   sess>>

HttpNext ==
    \/ HttpSend
    \/ \E status \in Statuses : HttpRespond(status)
HttpSpec == HttpInit /\ [][HttpNext]_vars

(* ------------------------------- session ------------------------------- *)
\* requests each thread makes through _get / _post
MaxRequests == 2
\* self._session is None
NO_SESSION == 0

SessInit ==
    /\ mail_address = EMPTY
    /\ password = EMPTY
    /\ refresh_token = <<"dummy_token">>
    /\ now = 0
    /\ refresh_token_expire = now + REFRESH_TOKEN_TTL
    /\ id_token = EMPTY
    /\ id_token_expire = now
    /\ minted = 0
    /\ sleeps = 0
    /\ ticks = 0
    /\ pc = [t \in Threads |-> "idle"]
    /\ arg = [t \in Threads |-> NoArg]
    /\ loc = [t \in Threads |-> NoLoc]
    /\ attempt = [t \in Threads |-> 0]
    /\ waits = [t \in Threads |-> <<>>]
    /\ result = [t \in Threads |-> NoResult]
    /\ hist = [t \in Threads |-> NoHist]
    /\ ctor = NoCtor
    /\ dr = NoDr
    /\ NoRange
    /\ cache = NoCache
    /\ load = NoLoad
    /\ http = NoHttp
    /\ sess = [state |-> "constructed",
               session |-> NO_SESSION,           \* self._session
               created |-> 0,                    \* requests.Session() objects made
               mounted |-> {},                   \* the sessions with the retry adapter
               at |-> [t \in Threads |-> "idle"],
               s |-> [t \in Threads |-> NO_SESSION],
               used |-> [t \in Threads |-> <<>>]]

\* thread t calls _get or _post, which begins with s = self._request_session()
SessCall(t) ==
    /\ sess.state = "constructed"
    /\ sess.at[t] = "idle"
    /\ Len(sess.used[t]) < MaxRequests
    /\ sess' = [sess EXCEPT !.at[t] = "check"]
    /\ UNCHANGED <<creds, config, env, perThread, ctorVars, dateVars, rangeVars, cache, load,
                   http>>

\* if self._session is None:
SessCheck(t) ==
    /\ sess.at[t] = "check"
    /\ sess' = [sess EXCEPT !.at[t] = IF sess.session = NO_SESSION THEN "create" ELSE "return"]
    /\ UNCHANGED <<creds, config, env, perThread, ctorVars, dateVars, rangeVars, cache, load,
                   http>>

\* retry_strategy = Retry(...); adapter = HTTPAdapter(...);
\* self._session = requests.Session()
SessCreate(t) ==
    /\ sess.at[t] = "create"
    /\ sess' = [sess EXCEPT !.created = @ + 1, !.session = sess.created + 1,
                            !.at[t] = "mount"]
    /\ UNCHANGED <<creds, config, env, perThread, ctorVars, dateVars, rangeVars, cache, load,
                   http>>

\* self._session.mount("https://", adapter), on the session the attribute
\* holds now
SessMount(t) ==
    /\ sess.at[t] = "mount"
    /\ sess' = [sess EXCEPT !.mounted = @ \cup {sess.session}, !.at[t] = "return"]
    /\ UNCHANGED <<creds, config, env, perThread, ctorVars, dateVars, rangeVars, cache, load,
                   http>>

\* return self._session
SessReturn(t) ==
    /\ sess.at[t] = "return"
    /\ sess' = [sess EXCEPT !.s[t] = sess.session, !.at[t] = "request"]
    /\ UNCHANGED <<creds, config, env, perThread, ctorVars, dateVars, rangeVars, cache, load,
                   http>>

\* s.get(...) / s.post(...)
SessRequest(t) ==
    /\ sess.at[t] = "request"
    /\ sess' = [sess EXCEPT !.used[t] = Append(@, sess.s[t]), !.s[t] = NO_SESSION,
                            !.at[t] = "idle"]
    /\ UNCHANGED <<creds, config, env, perThread, ctorVars, dateVars, rangeVars, cache, load,
                   http>>

SessNext ==
    \/ \E t \in Threads : SessCall(t)
    \/ \E t \in Threads : SessCheck(t)
    \/ \E t \in Threads : SessCreate(t)
    \/ \E t \in Threads : SessMount(t)
    \/ \E t \in Threads : SessReturn(t)
    \/ \E t \in Threads : SessRequest(t)
SessSpec == SessInit /\ [][SessNext]_vars

(* ============================== claims ================================= *)
\* thread t is inside a call of get_id_token
InGetIdToken(t) == pc[t] \notin Finished /\ arg[t].op = "get_id_token"

\* C1: a check of get_id_token that finds the id token's expiry later than now
\* leads to the return of the cached id token: neither that check nor that
\* return sends a login or exchange request or changes a cached token or
\* expiry, the value returned is the cached id token, and the step is never
\* blocked by what the other threads are doing.
C1_ValidTokenIsReturnedUnchanged ==
    [][\A t \in Threads :
        /\ (pc[t] = "id_check" /\ id_token_expire > now /\ pc'[t] # pc[t])
             => /\ pc'[t] = "id_hit"
                /\ hist'[t] = hist[t]
                /\ creds' = creds
        /\ (pc[t] = "id_hit" /\ pc'[t] # pc[t])
             => /\ pc'[t] = "done"
                /\ result'[t].kind = "ret"
                /\ result'[t].value = id_token
                /\ hist[t].logins = 0 /\ hist[t].exchanges = 0
                /\ creds' = creds
        /\ (pc[t] \in {"id_check", "id_hit"} /\ id_token_expire > now)
             => ENABLED (IdCheck(t) \/ IdHit(t))]_vars

\* C1 witness: with an unexpired id token cached, one thread has returned it
\* while the other one is returning it too.
C1_Witness ==
    \E t, u \in Threads :
        /\ t # u
        /\ id_token # EMPTY /\ id_token_expire > now
        /\ pc[t] = "done" /\ result[t].op = "get_id_token" /\ result[t].value = id_token
        /\ pc[u] = "id_hit"

\* C2: callers that call get_id_token() concurrently while the id token is
\* expired send exactly one exchange request between them: two calls that are
\* both in their first attempt never have sent an exchange request each.
C2_OneExchangeForConcurrentCallers ==
    \A t, u \in Threads :
        (/\ t # u
         /\ InGetIdToken(t) /\ InGetIdToken(u)
         /\ ~arg[t].refresh_token.some /\ ~arg[u].refresh_token.some
         /\ attempt[t] = 1 /\ attempt[u] = 1)
        => hist[t].exchanges + hist[u].exchanges <= 1

\* C3: at no time are two exchange requests of the client outstanding.
C3_OneOutstandingExchange ==
    Cardinality({t \in Threads : pc[t] = "ex_wait"}) <= 1

\* C4: get_id_token() without an explicit refresh token whose exchange succeeds
\* stores the token of the response as the cached id token, sets the expiry to
\* now plus 23 hours, and returns the token of the response; it logs in first
\* only if the cached refresh token is expired.
C4_StoresAndReturnsExchangedToken ==
    [][\A t \in Threads :
        (InGetIdToken(t) /\ ~arg[t].refresh_token.some) =>
          /\ (pc[t] = "rt_check" /\ pc'[t] = "login_wait") => refresh_token_expire <= now
          /\ (pc[t] = "ex_wait" /\ pc'[t] = "id_store_expire") => id_token' = loc'[t].resp
          /\ (pc[t] = "id_store_expire" /\ pc'[t] = "id_return")
               => id_token_expire' = now + 23 * 3600
          /\ (pc[t] = "id_return" /\ pc'[t] = "done")
               => result'[t].kind = "ret" /\ result'[t].value = loc[t].resp]_vars

\* C5: an exchange that fails with status 400 in a call without an explicit
\* refresh token, on a client with a mail address and a password, is followed
\* by the four clearing writes (both tokens to "", both expiries to now) and,
\* after the backoff, by a new attempt that starts again at the expiry check;
\* no call makes more than 3 attempts, the third failed attempt ends the call,
\* and an attempt that obtained a token returns without another attempt.
C5_ClearsAndRetriesUpToThreeAttempts ==
    [][\A t \in Threads :
        /\ attempt[t] <= 3
        /\ (pc[t] = "ex_wait" /\ pc'[t] # pc[t] /\ pc'[t] \notin {"id_store_expire", "raised"})
             => /\ pc'[t] = "clear_refresh_token_expire"
                /\ refresh_token' = EMPTY
                /\ loc'[t].e.exc = "HTTPError" /\ loc'[t].e.status = 400
        /\ (pc[t] = "ex_wait" /\ pc'[t] = "raised"
              /\ result'[t].exc = "HTTPError" /\ result'[t].status = 400)
             => (arg[t].refresh_token.some \/ mail_address = EMPTY \/ password = EMPTY)
        /\ (pc[t] = "clear_refresh_token_expire" /\ pc'[t] # pc[t])
             => pc'[t] = "clear_id_token" /\ refresh_token_expire' = now
        /\ (pc[t] = "clear_id_token" /\ pc'[t] # pc[t])
             => pc'[t] = "clear_id_token_expire" /\ id_token' = EMPTY
        /\ (pc[t] = "clear_id_token_expire" /\ pc'[t] # pc[t])
             => /\ id_token_expire' = now
                /\ attempt[t] < 3 => pc'[t] = "sleep" /\ attempt'[t] = attempt[t]
                /\ attempt[t] = 3 => pc'[t] = "raised"
        /\ (pc[t] = "sleep" /\ pc'[t] # pc[t])
             => /\ pc'[t] = "id_check" /\ attempt'[t] = attempt[t] + 1
                /\ arg'[t] = arg[t] /\ creds' = creds
        /\ (pc[t] = "id_store_expire" /\ pc'[t] # pc[t]) => pc'[t] = "id_return"
        /\ (pc[t] = "id_return" /\ pc'[t] # pc[t])
             => pc'[t] = "done" /\ result'[t].kind = "ret"]_vars

C5_Witness ==
    \E t \in Threads : pc[t] = "id_return" /\ attempt[t] = 2 /\ Len(waits[t]) = 1
                       /\ id_token # EMPTY

C7_FailurePropagatesAfterOneAttemptUntouched ==
    [][\A t \in Threads :
        (InGetIdToken(t) /\ pc[t] \in {"ex_wait", "login_wait"} /\ pc'[t] = "raised")
          => /\ attempt[t] = 1 /\ waits[t] = <<>>
             /\ hist[t].wrote = {} /\ creds' = creds]_vars

\* C7 (amended): an exchange failure is retried only when no explicit refresh
\* token was passed, the status is 400, and mail address and password are both
\* non-empty; every other failure of the exchange or of the login ends the
\* call at once with that error, without a wait or a further attempt; the
\* failing step writes nothing, and the failing attempt has written nothing
\* but the refresh token and its expiry, after a login of its own succeeded.
C7_OnlyExpiredRefreshIsRetried ==
    [][\A t \in Threads :
        InGetIdToken(t) =>
          /\ (pc[t] = "ex_wait" /\ pc'[t] = "clear_refresh_token_expire")
               => /\ ~arg[t].refresh_token.some
                  /\ loc'[t].e.exc = "HTTPError" /\ loc'[t].e.status = 400
                  /\ mail_address # EMPTY /\ password # EMPTY
          /\ (pc[t] = "ex_wait" /\ pc'[t] \notin {"ex_wait", "id_store_expire"}
                /\ (arg[t].refresh_token.some \/ mail_address = EMPTY \/ password = EMPTY))
               => pc'[t] = "raised"
          /\ (pc[t] = "login_wait" /\ pc'[t] \notin {"login_wait", "rt_store_expire"})
               => pc'[t] = "raised"
          /\ (pc[t] \in {"ex_wait", "login_wait"} /\ pc'[t] = "raised")
               => /\ result'[t].kind = "exc"
                  /\ result'[t].exc \in {"HTTPError", "ConnectionError"}
                  /\ creds' = creds /\ sleeps' = sleeps /\ now' = now
                  /\ hist[t].wrote \subseteq {"refresh_token", "refresh_token_expire"}
                  /\ hist[t].wrote # {} => hist[t].logins = 1 /\ pc[t] = "ex_wait"]_vars

C7_Witness ==
    \E t \in Threads :
        /\ pc[t] = "raised" /\ result[t].op = "get_id_token"
        /\ result[t].exc = "HTTPError" /\ result[t].status = 400
        /\ mail_address # EMPTY /\ password # EMPTY

\* C8: when the third attempt of a call of get_id_token fails with the
\* expired-refresh condition too, the caller receives the HTTP error of the
\* exchange request (status 400), not an exception of the retry layer.
C8_CallerSeesUpstreamErrorAfterLastAttempt ==
    [][\A t \in Threads :
        (pc[t] = "clear_id_token_expire" /\ attempt[t] = 3 /\ pc'[t] = "raised")
          => /\ result'[t].kind = "exc"
             /\ result'[t].exc = "HTTPError"
             /\ result'[t].status = 400]_vars

\* C9: get_refresh_token returns the cached refresh token without a request
\* when its expiry is later than now, whatever the arguments; otherwise it
\* sends one login request with the effective mail address and password,
\* stores the token of the response, sets the expiry to now plus 6 days, and
\* returns the token of the response.
C9_ReturnsCachedOrLoggedInToken ==
    [][\A t \in Threads :
        (pc[t] \notin Finished /\ arg[t].op = "get_refresh_token") =>
          /\ (pc[t] = "rt_check" /\ refresh_token_expire > now /\ pc'[t] # pc[t])
               => pc'[t] = "rt_hit" /\ hist'[t].logins = 0 /\ creds' = creds
          /\ (pc[t] = "rt_hit" /\ pc'[t] # pc[t])
               => /\ pc'[t] = "done" /\ result'[t].value = refresh_token
                  /\ hist[t].logins = 0 /\ creds' = creds
          /\ (pc[t] = "rt_check" /\ pc'[t] = "login_wait")
               => /\ refresh_token_expire <= now
                  /\ hist'[t].logins = 1
                  /\ hist'[t].loginWith =
                       << IF arg[t].mail_address.some THEN arg[t].mail_address.v
                                                      ELSE mail_address,
                          IF arg[t].password.some THEN arg[t].password.v ELSE password >>
          /\ (pc[t] = "login_wait" /\ pc'[t] = "rt_store_expire")
               => refresh_token' = loc'[t].resp
          /\ (pc[t] = "rt_store_expire" /\ pc'[t] # pc[t])
               => pc'[t] = "rt_return" /\ refresh_token_expire' = now + 6 * 86400
          /\ (pc[t] = "rt_return" /\ pc'[t] # pc[t])
               => /\ pc'[t] = "done" /\ result'[t].kind = "ret"
                  /\ result'[t].value = loc[t].resp /\ hist[t].logins = 1]_vars

\* C10: get_refresh_token, reached with the cached refresh token expired and
\* an effective mail address or password (the argument when it is not None,
\* else the stored value) that is empty, or a mail address without '@', raises
\* ValueError, sends no login request, and leaves the stored refresh token and
\* its expiry unchanged.
C10_BadCredentialsRaiseValueError ==
    [][\A t \in Threads :
        LET m == IF arg[t].mail_address.some THEN arg[t].mail_address.v ELSE mail_address
            p == IF arg[t].password.some THEN arg[t].password.v ELSE password
        IN (/\ pc[t] = "rt_check" /\ pc'[t] # pc[t]
            /\ refresh_token_expire <= now
            /\ (m = <<>> \/ p = <<>> \/ ~(\E i \in 1..Len(m) : m[i] = "@")))
           => /\ pc'[t] = "raised"
              /\ result'[t].kind = "exc" /\ result'[t].exc = "ValueError"
              /\ hist[t].logins = 0
              /\ refresh_token' = refresh_token
              /\ refresh_token_expire' = refresh_token_expire
              /\ minted' = minted]_vars

C10_Witness ==
    \E t \in Threads :
        /\ pc[t] = "raised" /\ result[t].op = "get_refresh_token"
        /\ result[t].exc = "ValueError"
        /\ mail_address # EMPTY /\ password # EMPTY
        /\ refresh_token_expire <= now

\* the values __init__ works with: the argument when it is not None, else the
\* value of the configuration
CtorMail == IF ctor.args[2].some THEN ctor.args[2].v ELSE ctor.cfg[1]
CtorPassword == IF ctor.args[3].some THEN ctor.args[3].v ELSE ctor.cfg[2]
CtorRefreshToken == IF ctor.args[1].some THEN ctor.args[1].v ELSE ctor.cfg[3]
Constructed == ctor.state \in {"ok", "ValueError"}

\* C11: a construction whose effective mail address or password is empty and
\* whose effective refresh token is empty raises ValueError; so does one whose
\* non-empty mail address has no '@'; one with a non-empty refresh token and
\* an empty mail address and password succeeds.
C11_ConstructionChecksCredentials ==
    Constructed =>
      /\ ((CtorMail = <<>> \/ CtorPassword = <<>>) /\ CtorRefreshToken = <<>>)
           => ctor.state = "ValueError"
      /\ (CtorMail # <<>> /\ ~(\E i \in 1..Len(CtorMail) : CtorMail[i] = "@"))
           => ctor.state = "ValueError"
      /\ (CtorMail = <<>> /\ CtorPassword = <<>> /\ CtorRefreshToken # <<>>)
           => /\ ctor.state = "ok"
              /\ mail_address = <<>> /\ password = <<>>
              /\ refresh_token = CtorRefreshToken

C11_Witness ==
    /\ ctor.state = "ok"
    /\ mail_address = EMPTY /\ password = EMPTY /\ refresh_token = <<"token">>
    /\ ctor.cfg[1] # EMPTY

\* C12 (as stated): a construction is accepted only when exactly one of the two
\* credential forms, the (mail address, password) pair or the refresh token,
\* is non-empty.
C12_ExactlyOneCredentialForm ==
    ctor.state = "ok" =>
      ((CtorMail # <<>> /\ CtorPassword # <<>>) # (CtorRefreshToken # <<>>))

\* C12 (amended): a construction is accepted exactly when at least one of the
\* two credential forms is non-empty (the pair with both parts non-empty, or
\* the refresh token; both forms together are accepted) and the mail address,
\* when non-empty, contains '@'.
C12_AtLeastOneCredentialForm ==
    Constructed =>
      (ctor.state = "ok" <=>
         /\ (CtorMail # <<>> /\ CtorPassword # <<>>) \/ CtorRefreshToken # <<>>
         /\ CtorMail = <<>> \/ (\E i \in 1..Len(CtorMail) : CtorMail[i] = "@"))

C12_Witness ==
    /\ ctor.state = "ok"
    /\ mail_address # EMPTY /\ password # EMPTY /\ refresh_token # EMPTY

\* C13: a successful construction leaves the refresh token's expiry at the
\* construction time plus 6 days when the effective refresh token is
\* non-empty and at the construction time when it is empty, and the id token
\* empty with its expiry at the construction time; the first
\* get_refresh_token() of a client built without a refresh token therefore
\* sends a login request, and that of a client built with one does not.
C13_InitialExpiries ==
    [][/\ (ctor.state = "new" /\ ctor'.state = "ok")
            => /\ refresh_token' = CtorRefreshToken
               /\ refresh_token' # <<>> => refresh_token_expire' = now + 6 * 86400
               /\ refresh_token' = <<>> => refresh_token_expire' = now
               /\ id_token' = <<>> /\ id_token_expire' = now /\ now' = now
       /\ \A t \in Threads :
            (ctor.state = "ok" /\ minted = 0 /\ pc[t] = "rt_check" /\ pc'[t] # pc[t])
              => /\ CtorRefreshToken = <<>> => pc'[t] = "login_wait"
                 /\ CtorRefreshToken # <<>> => pc'[t] = "rt_hit"]_vars

C13_Witness ==
    \E t \in Threads :
        /\ ctor.state = "ok" /\ CtorRefreshToken = EMPTY /\ refresh_token_expire = now
        /\ pc[t] = "login_wait" /\ minted = 0

\* C14 (as stated): every request the client has sent carries an Authorization
\* bearer header.
C14_EveryRequestCarriesBearer ==
    \A r \in sent : r.auth.some

\* C14 (amended): every GET is sent with an Authorization header whose value
\* is the id token that the get_id_token call of the same _get has just
\* returned, a token valid at that moment and never one kept from an earlier
\* request; the POSTs to the token endpoints carry no Authorization header.
C14_GetCarriesFreshToken ==
    [][/\ \A r \in sent' \ sent :
            IF r.method = "GET"
            THEN r.auth = Some(id_token') /\ id_token_expire' > now'
            ELSE r.auth = None
       /\ \A f \in Fetches : \A k \in 1..Len(task[f]) :
            (task[f][k].state = "queued" /\ task'[f][k].state = "running")
              => /\ Get("prices/daily_quotes", Some(id_token')) \in sent'
                 /\ id_token_expire' > now']_vars
\* two GETs of one fetch went out with different tokens: the id token ran out
\* and was exchanged between them
C14_Witness ==
    /\ ticks > 0
    /\ \E r, q \in sent :
         /\ r.method = "GET" /\ q.method = "GET"
         /\ r.auth.some /\ q.auth.some /\ r.auth # q.auth
         /\ q.auth = Some(id_token)
    /\ Post("token/auth_refresh") \in sent

\* C15: a range fetch submits a per-date task only after its own pre-load
\* get_id_token() has returned a token (before it, the fetch has no task), and
\* a fetch whose pre-load raised never submits a task.
C15_PreloadBeforeSubmit ==
    [][\A f \in Fetches :
         /\ Len(task'[f]) > Len(task[f])
              => fetch[f].state = "submit" /\ minted > 0 /\ id_token # EMPTY
         /\ fetch[f].state = "preload" => task[f] = <<>> /\ task'[f] = <<>>
         /\ (fetch[f].state = "preload" /\ fetch'[f].state = "submit")
              => id_token' # EMPTY /\ id_token_expire' > now'
         /\ (fetch[f].state = "raised" /\ task[f] = <<>>) => task'[f] = <<>>]_vars
\* a fetch has submitted the task of every date after a pre-load that had to
\* exchange the refresh token for the first id token
C15_Witness ==
    \E f \in Fetches :
        /\ fetch[f].state = "submit"
        /\ Len(task[f]) = Len(fetch[f].keys) /\ Len(task[f]) > 1
        /\ minted = 1 /\ Post("token/auth_refresh") \in sent
\* the pre-load of a fetch raised and the fetch ended without a task
C15_PreloadRaised ==
    \E f \in Fetches :
        fetch[f].state = "raised" /\ task[f] = <<>> /\ minted = 0

\* C17: at every moment, the per-date calls of one range fetch that are
\* executing number at most MAX_WORKERS (5), also when the range has more
\* dates than that.
C17_AtMostMaxWorkersRunning ==
    \A f \in Fetches : Cardinality(Running(f)) <= 5
\* a fetch of 6 dates with 5 calls executing and the sixth waiting in the queue
C17_Witness ==
    \E f \in Fetches :
        /\ Len(task[f]) = 6
        /\ Cardinality(Running(f)) = 5
        /\ Cardinality(TasksIn(f, "queued")) = 1

\* C18: at every moment, the per-date calls executing in all the range
\* fetches that run on the client number at most the pool size (5) together.
C18_OnePoolPerClient ==
    Cardinality({x \in Fetches \X (1..MaxTasks) : x[2] \in Running(x[1])}) <= 5

\* the dates of a stream fetch that ended without a failure
StreamDone(f) == fetch[f].mode = "stream" /\ fetch[f].state = "done"
\* C19 (as stated): a stream fetch whose tasks all succeeded has yielded the
\* results in the order in which the tasks completed.
C19_YieldsInCompletionOrder ==
    \A f \in Fetches : StreamDone(f) => fetch[f].out = finished[f]

\* C19 (amended): a stream fetch whose tasks all succeeded has yielded the
\* result of every date of the range exactly once and no more results than
\* dates; the results of the tasks that completed after as_completed began
\* come in the order of their completion, after those of the tasks that had
\* completed before, which come in no particular order.
C19_YieldsEachDateOnce ==
    \A f \in Fetches :
        StreamDone(f) =>
          LET out == fetch[f].out
              n == Len(fetch[f].keys)
              early == fetch[f].early
          IN /\ Len(out) = n
             /\ \A k \in 1..n : Cardinality({i \in 1..Len(out) : out[i] = k}) = 1
             /\ \A i \in 1..n : task[f][out[i]].key = fetch[f].keys[out[i]]
             /\ {out[i] : i \in 1..early} = {finished[f][i] : i \in 1..early}
             /\ \A i \in (early + 1)..n : out[i] = finished[f][i]
\* a finished stream fetch of 3 dates that yielded in another order than the
\* submission order, the last task to complete last
C19_Witness ==
    \E f \in Fetches :
        /\ StreamDone(f) /\ Len(fetch[f].keys) = 3
        /\ fetch[f].out # <<1, 2, 3>>
        /\ fetch[f].early = 1
        /\ fetch[f].out = finished[f]
        /\ finished[f][3] = 1

\* C20: the frame a batch fetch returns holds exactly the rows of the per-date
\* results, in ascending order of (Code, Date): with one row for a code and a
\* date that is one frame only, the same whatever the order in which the tasks
\* completed and were collected.
C20_MergedOrderIsTheSortOrder ==
    \A f \in Fetches :
        (fetch[f].mode = "batch" /\ fetch[f].state = "done") =>
          LET merged == fetch[f].merged
              keys == fetch[f].keys
          IN /\ \A i, j \in 1..Len(merged) :
                  i < j => \/ merged[i].Code < merged[j].Code
                           \/ /\ merged[i].Code = merged[j].Code
                              /\ merged[i].Date < merged[j].Date
             /\ Range(merged) = UNION {Range(DailyQuotes(keys[k])) : k \in 1..Len(keys)}
\* a batch fetch of 3 dates returned its 4 rows after collecting the results
\* in another order than the dates of the range
C20_Witness ==
    \E f \in Fetches :
        /\ fetch[f].mode = "batch" /\ fetch[f].state = "done"
        /\ Len(fetch[f].keys) = 3 /\ Len(fetch[f].merged) = 4
        /\ fetch[f].out[1] = 3 /\ fetch[f].out[3] = 1
        /\ finished[f] # fetch[f].out

\* a range fetch with a failed task
HasFailed(f) == TasksIn(f, "failed") # {}

C22_NoResultOnFailure ==
    \A f \in Fetches : fetch[f].state \in {"failing", "raised"} => Delivered(f) = <<>>

\* C22 (amended): the caller of a batch fetch with a failed task obtains no
\* per-date result; the caller of a stream fetch keeps the results yielded
\* before the failed task's result was reached, each the result of a task that
\* succeeded, and obtains no further one.
C22_NoResultFromFailedBatch ==
    [][\A f \in Fetches :
         /\ (fetch'[f].mode = "batch" /\ fetch'[f].state \in {"failing", "raised"})
              => Delivered(f)' = <<>>
         /\ (fetch'[f].mode = "batch" /\ fetch'[f].state = "done")
              => Len(Delivered(f)') = Len(fetch'[f].keys)
         /\ (fetch'[f].mode = "stream" /\ fetch'[f].state \in {"failing", "raised"})
              => /\ \A i \in 1..Len(Delivered(f)') : task'[f][Delivered(f)'[i]].state = "done"
                 /\ fetch[f].state \in {"failing", "raised"} => Delivered(f)' = Delivered(f)]_vars
\* a batch fetch raised after two results had been collected into its buffer
C22_Witness ==
    \E f \in Fetches :
        /\ fetch[f].mode = "batch" /\ fetch[f].state = "raised"
        /\ Len(fetch[f].out) = 2 /\ Delivered(f) = <<>>
\* a stream fetch raised after it had yielded two results
C22_StreamPartial ==
    \E f \in Fetches :
        /\ fetch[f].mode = "stream" /\ fetch[f].state = "raised"
        /\ Len(Delivered(f)) = 2

\* the cached range fetch: get_statements_range with a non-empty cache_dir
Cached(f) == fetch[f].mode = "cached" /\ cache.dir # ""

\* C23: in the cached range fetch, a date whose cache file exists when the
\* loop reaches it gets no task: the frame read from the file goes into the
\* buffer, and the returned frame holds its rows and no fetched row of that
\* date.
C23_CacheHitSchedulesNoTask ==
    [][\A f \in Fetches :
         Cached(f) =>
           /\ \A k \in 1..Len(task'[f]) :
                k > Len(task[f]) => task'[f][k].key \notin cache.files
           /\ (cache'.pos = cache.pos + 1 /\ fetch[f].keys[cache.pos + 1] \in cache.files)
                => /\ cache'.hits = Append(cache.hits, fetch[f].keys[cache.pos + 1])
                   /\ task'[f] = task[f]
           /\ fetch'[f].state = "done"
                => \A key \in Range(cache'.hits) :
                     /\ \A r \in Range(Statements(key, "read_csv")) :
                          r \in Range(fetch'[f].merged)
                     /\ \A r \in Range(Statements(key, "get_fins_statements")) :
                          r \notin Range(fetch'[f].merged)]_vars
\* a cached fetch of 3 dates returned the rows of one file and of one fetched
\* date after a single task
C23_Witness ==
    \E f \in Fetches :
        /\ Cached(f) /\ fetch[f].state = "done" /\ Len(fetch[f].keys) = 3
        /\ Len(cache.hits) = 2 /\ Len(task[f]) = 1
        /\ Len(fetch[f].merged) = 2
        /\ \E i, j \in 1..2 : /\ fetch[f].merged[i].via = "read_csv"
                              /\ fetch[f].merged[j].via = "get_fins_statements"

\* C24: when a cached range fetch has ended, every date that had no cache
\* file has had exactly one task, and the result of every task that succeeded
\* has been written to the cache file of its date exactly once, whatever
\* became of the other dates.
C24_WrittenThroughOnSuccess ==
    \A f \in Fetches :
        (Cached(f) /\ fetch[f].state \in {"done", "raised"} /\ cache.pos = Len(fetch[f].keys))
          => /\ \A key \in Range(fetch[f].keys) \ Range(cache.hits) :
                  Cardinality({k \in 1..Len(task[f]) : task[f][k].key = key}) = 1
             /\ \A k \in TasksIn(f, "done") :
                  Cardinality({i \in 1..Len(cache.writes) :
                                 cache.writes[i] = task[f][k].key}) = 1

\* C26: after construction each of mail_address, password and refresh_token
\* holds, independently of the two others, the value of the last source that
\* defines it in the order colab file, home file, current-directory file, file
\* named by JQUANTS_API_CLIENT_CONFIG_FILE, environment variable, constructor
\* argument that is not None, and the empty string when none defines it; a
\* file that is absent, not read, or without the table defines nothing.
C26_HighestPrioritySourceWins ==
    load.state = "done" =>
      LET used == [k \in ConfigKeys |->
                     CASE k = "mail_address" -> mail_address
                       [] k = "password" -> password
                       [] OTHER -> refresh_token]
          defines(s, k) ==
              CASE s \in 1..4 ->
                     /\ s = 1 => load.is_colab
                     /\ s = 4 => load.env_file_named
                     /\ \/ load.files[s] = "all"
                        \/ load.files[s] = "mail_address" /\ k = "mail_address"
                [] s = 5 -> \/ load.environ = "all"
                            \/ load.environ = "empty_mail_address" /\ k = "mail_address"
                [] OTHER -> \/ load.args = "all"
                            \/ load.args = "refresh_token" /\ k = "refresh_token"
                            \/ load.args = "empty_password" /\ k = "password"
          value(s, k) ==
              CASE s \in 1..4 -> <<ConfigFiles[s], k>>
                [] s = 5 -> IF load.environ = "all" THEN <<"environ", k>> ELSE <<>>
                [] OTHER -> IF load.args = "empty_password" THEN <<>> ELSE <<"argument", k>>
      IN \A k \in ConfigKeys :
           LET defining == {s \in 1..6 : defines(s, k)}
           IN IF defining = {} THEN used[k] = <<>>
              ELSE \E s \in defining : /\ \A r \in defining : r <= s
                                       /\ used[k] = value(s, k)
\* the three attributes come from three sources: the mail address from the
\* file of the environment, over the three files before it, the password from
\* the current-directory file, the refresh token from the argument
C26_Witness ==
    /\ load.state = "done"
    /\ load.is_colab /\ load.env_file_named
    /\ load.files = <<"all", "no_table", "all", "mail_address">>
    /\ mail_address = <<"env_file", "mail_address">>
    /\ password = <<"current", "password">>
    /\ refresh_token = <<"argument", "refresh_token">>

\* the statuses of responses that the transport answered by sending again
Resent == {http.history[i] : i \in 1..(IF http.state \in {"sent", "retry"}
                                        THEN Len(http.history)
                                        ELSE Len(http.history) - 1)}
C28_ExactlyOneSession ==
    sess.state = "constructed" =>
      /\ sess.created <= 1
      /\ \A t, u \in Threads :
           \A i \in 1..Len(sess.used[t]), j \in 1..Len(sess.used[u]) :
               sess.used[t][i] = sess.used[u][j]

\* C25: renewal replaces the cached pair of a token and its expiry atomically,
\* so no caller observes a token paired with the expiry of a different token: a
\* caller that has found the id token's expiry later than now reads a stored id
\* token (never the cleared value ""), a caller that has found the refresh
\* token's expiry later than now reads a stored refresh token, and a
\* get_id_token call that has stored the expiry of the token it received finds
\* that token, not the token of another exchange, in the cache.
C25_TokenPairedWithItsOwnExpiry ==
    \A t \in Threads :
        /\ pc[t] = "id_hit" => id_token # EMPTY
        /\ pc[t] = "rt_hit" => refresh_token # EMPTY
        /\ (InGetIdToken(t) /\ pc[t] = "id_return") => id_token = loc[t].resp

\* C29: under any interleaving of concurrent calls, get_id_token never returns
\* the empty string: every value a get_id_token call returns is a token issued
\* by a successful exchange.
C29_NeverReturnsEmptyToken ==
    \A t \in Threads :
        (result[t].op = "get_id_token" /\ result[t].kind = "ret")
            => (result[t].value # EMPTY /\ result[t].value[1] = "id")

\* C30: after an expired-refresh failure has cleared the credentials, the next
\* attempt of get_id_token (a second or third attempt of a call without an
\* explicit refresh token) sends a login request before its exchange request,
\* and that exchange request carries the refresh token returned by that login.
C30_RetryLogsInBeforeExchange ==
    [][\A t \in Threads :
        (/\ InGetIdToken(t) /\ ~arg[t].refresh_token.some
         /\ attempt[t] >= 2
         /\ pc[t] # "ex_wait" /\ pc'[t] = "ex_wait")
        => /\ hist[t].logins = 1
           /\ loc[t].resp # EMPTY
           /\ loc'[t].refresh_token = loc[t].resp]_vars

\* C31: get_id_token called with an explicit refresh token while the cached id
\* token is unexpired returns the cached id token and sends no exchange
\* request: the check leads to the return, the supplied refresh token is put
\* into no request, no login or exchange request is sent, and no cached token
\* or expiry changes.
C31_ExplicitTokenIgnoredWhileValid ==
    [][\A t \in Threads :
        (InGetIdToken(t) /\ arg[t].refresh_token.some) =>
          /\ (pc[t] = "id_check" /\ id_token_expire > now /\ pc'[t] # pc[t])
               => /\ pc'[t] = "id_hit"
                  /\ hist'[t].exchanges = 0 /\ hist'[t].logins = 0
                  /\ loc'[t].refresh_token = EMPTY
                  /\ creds' = creds
          /\ (pc[t] = "id_hit" /\ pc'[t] # pc[t])
               => /\ pc'[t] = "done"
                  /\ result'[t].op = "get_id_token" /\ result'[t].kind = "ret"
                  /\ result'[t].value = id_token
                  /\ hist[t].exchanges = 0 /\ hist[t].logins = 0
                  /\ loc[t].refresh_token = EMPTY
                  /\ creds' = creds]_vars

\* C31 witness: a call with an explicit refresh token has found the cached id
\* token unexpired and is about to return it.
C31_Witness ==
    \E t \in Threads :
        /\ InGetIdToken(t) /\ arg[t].refresh_token.some
        /\ pc[t] = "id_hit"
        /\ id_token # EMPTY /\ id_token_expire > now
        /\ hist[t].exchanges = 0

\* C32: every range fetch terminates provided each per-date call terminates:
\* a fetch that has been called eventually ends (the streaming sequence ends,
\* the batch result is returned, or the error is raised), and by then every
\* task it submitted has been run to its end, also the tasks that were queued
\* when another task failed.
C32_EveryRangeFetchTerminates ==
    (fetch["f1"].state # "idle")
      ~> (/\ fetch["f1"].state \in {"done", "raised"}
          /\ Len(task["f1"]) \in {0, Len(fetch["f1"].keys)}
          /\ ShutdownWaited("f1"))

\* C32 witness: the error of a failed task has reached the caller with every
\* task ended, one of them having run to its end after the failure of another.
C32_Witness ==
    /\ fetch["f1"].state = "raised"
    /\ TasksIn("f1", "failed") # {}
    /\ Ended("f1") = 1..Len(task["f1"])
    /\ \E i \in 1..Len(finished["f1"]) :
         /\ task["f1"][finished["f1"][i]].state = "done"
         /\ \E j \in 1..(i - 1) : task["f1"][finished["f1"][j]].state = "failed"

\* C16: a finished date_range has yielded exactly the calendar dates from the
\* date of its start argument to the date of its end argument, both included,
\* in ascending order, one key of 8 digits each, whatever the representation,
\* the time of day and the timezone of the arguments.
C16_KeysAreTheCalendarDates ==
    dr.state = "done" =>
      dr.keys = [i \in 1..Max(0, dr.end.day - dr.start.day + 1) |->
                   Strftime8(Datetime(dr.start.day + i - 1, 0, NAIVE))]
====
